---- MODULE Spec2Model ----
(***************************************************************************)
(* Model of the raw-CSV cleaner of gas_consumption                         *)
(* (data/data_preprocessing.py): the field cleaners as operators on        *)
(* character sequences, and clean_csv_data as a staged state machine.      *)
(*                                                                         *)
(* A text is a sequence of one-character strings.  Three characters stand  *)
(* for non-ASCII code points: "nbsp" is U+00A0, "tab" is U+0009 and "sup2" *)
(* is U+00B2 (SUPERSCRIPT TWO, for which str.isdigit() is True while       *)
(* int() and float() raise ValueError).                                    *)
(***************************************************************************)
EXTENDS Integers, Sequences, FiniteSets, TLC

(***************************************************************************)
(* Bounds of the model                                                     *)
(***************************************************************************)
MaxLen == 3

(***************************************************************************)
(* Values that are not texts                                               *)
(***************************************************************************)
None == <<"#None">>
NaN == <<"#NaN">>
Raise == <<"#Raise">>
Unset == <<"#Unset">>

(***************************************************************************)
(* Python string primitives                                                *)
(***************************************************************************)
DecimalChars == {"0", "1", "2", "3", "4", "5", "6", "7", "8", "9"}

IsDigit(c) == c \in DecimalChars \cup {"sup2"}

IsSpace(c) == c \in {" ", "nbsp", "tab"}

LowerChar(c) ==
  CASE c = "N" -> "n"
    [] c = "A" -> "a"
    [] c = "O" -> "o"
    [] c = "E" -> "e"
    [] OTHER -> c

Lower(s) == [i \in 1..Len(s) |-> LowerChar(s[i])]

RECURSIVE LStrip(_)
LStrip(s) == IF s # <<>> /\ IsSpace(Head(s)) THEN LStrip(Tail(s)) ELSE s

RECURSIVE RStrip(_)
RStrip(s) ==
  IF s # <<>> /\ IsSpace(s[Len(s)]) THEN RStrip(SubSeq(s, 1, Len(s) - 1)) ELSE s

Strip(s) == RStrip(LStrip(s))

\* ''.join(c for c in s if c.isdigit())
KeepDigits(s) == SelectSeq(s, IsDigit)

RemoveChar(s, ch) == LET keep(c) == c # ch IN SelectSeq(s, keep)

ReplaceChar(s, from, to) == [i \in 1..Len(s) |-> IF s[i] = from THEN to ELSE s[i]]

Contains(s, ch) == \E i \in 1..Len(s) : s[i] = ch

\* str.split(sep) for a one-character separator: empty parts are kept
RECURSIVE Split(_, _)
Split(s, sep) ==
  IF ~Contains(s, sep) THEN <<s>>
  ELSE LET k == CHOOSE i \in 1..Len(s) : s[i] = sep /\ \A j \in 1..(i - 1) : s[j] # sep
       IN <<SubSeq(s, 1, k - 1)>> \o Split(SubSeq(s, k + 1, Len(s)), sep)

RECURSIVE ZFill(_, _)
ZFill(s, width) == IF Len(s) >= width THEN s ELSE ZFill(<<"0">> \o s, width)

DigitVal(c) ==
  CASE c = "0" -> 0 [] c = "1" -> 1 [] c = "2" -> 2 [] c = "3" -> 3 [] c = "4" -> 4
    [] c = "5" -> 5 [] c = "6" -> 6 [] c = "7" -> 7 [] c = "8" -> 8 [] c = "9" -> 9

RECURSIVE NatOf(_)
NatOf(s) == IF s = <<>> THEN 0 ELSE 10 * NatOf(SubSeq(s, 1, Len(s) - 1)) + DigitVal(s[Len(s)])

\* the character of a decimal digit
DecimalDigit(n) == CHOOSE c \in DecimalChars : DigitVal(c) = n

AllDecimal(s) == \A i \in 1..Len(s) : s[i] \in DecimalChars

\* str(value): a missing value read by pandas is the float nan, whose str is 'nan'
Str(v) ==
  CASE v = NaN -> <<"n", "a", "n">>
    [] v = None -> <<"N", "o", "n", "e">>
    [] OTHER -> v

(***************************************************************************)
(* convert_date_vectorized: the body of the loop, for one element          *)
(***************************************************************************)
\* the list of line 65 without 'none'
DatePlaceholders_without_none == {<<"n", "a", "n">>, <<>>}

DatePlaceholders == {<<"n", "a", "n">>, <<"n", "o", "n", "e">>, <<>>}

\* FormatYear with the century boundary off by one (int(year) <= 50)
FormatYear_boundary51(year) ==
  IF Len(year) = 2
    THEN IF \E i \in 1..2 : year[i] \notin DecimalChars THEN Raise
         ELSE IF NatOf(year) <= 50 THEN <<"2", "0">> \o year ELSE <<"1", "9">> \o year
    ELSE IF Len(year) = 4 THEN year ELSE None

\* FormatYear without the rejection of years that have neither 2 nor 4 digits
FormatYear_anylength(year) ==
  IF Len(year) = 2
    THEN IF \E i \in 1..2 : year[i] \notin DecimalChars THEN Raise
         ELSE IF NatOf(year) < 50 THEN <<"2", "0">> \o year ELSE <<"1", "9">> \o year
    ELSE year

\* int(year) < 50 on a two-character year; int() raises on a non-decimal digit
FormatYear(year) ==
  IF Len(year) = 2
    THEN IF ~AllDecimal(year) THEN Raise
         ELSE IF NatOf(year) < 50 THEN <<"2", "0">> \o year ELSE <<"1", "9">> \o year
    ELSE IF Len(year) = 4 THEN year ELSE None

\* convert_date_body with day and month exchanged in the formatted result
convert_date_body_swapped(value) ==
  LET date_str == Strip(Str(value)) IN
  IF Lower(date_str) \in DatePlaceholders THEN None
  ELSE IF Contains(date_str, ".") /\ Len(Split(date_str, ".")) = 3
    THEN LET parts == Split(date_str, ".")
             day == KeepDigits(parts[1])
             month == KeepDigits(parts[2])
             year == KeepDigits(parts[3])
         IN IF day = <<>> \/ month = <<>> \/ year = <<>> THEN None
            ELSE LET y == FormatYear(year)
                 IN IF y \in {None, Raise} THEN y
                    ELSE ZFill(y, 4) \o <<"-">> \o ZFill(day, 2) \o <<"-">> \o ZFill(month, 2)
    ELSE date_str

\* the statements inside the try block
convert_date_body(value) ==
  LET date_str == Strip(Str(value)) IN
  IF Lower(date_str) \in DatePlaceholders THEN None
  ELSE IF Contains(date_str, ".") /\ Len(Split(date_str, ".")) = 3
    THEN LET parts == Split(date_str, ".")
             day == KeepDigits(parts[1])
             month == KeepDigits(parts[2])
             year == KeepDigits(parts[3])
         IN IF day = <<>> \/ month = <<>> \/ year = <<>> THEN None
            ELSE LET y == FormatYear(year)
                 IN IF y \in {None, Raise} THEN y
                    ELSE ZFill(y, 4) \o <<"-">> \o ZFill(month, 2) \o <<"-">> \o ZFill(day, 2)
    ELSE date_str

\* convert_date_vectorized without the except clause
convert_date_vectorized_noexcept(value) == convert_date_body(value)

\* try: ... except: result.append(None)
convert_date_vectorized(value) ==
  LET r == convert_date_body(value) IN IF r = Raise THEN None ELSE r

(***************************************************************************)
(* float(text) for a text of digits, '.' and '-': the value is kept exact  *)
(* as <<"#float", sign, mantissa, number of fraction digits>>              *)
(***************************************************************************)
RECURSIVE DropTrailingZeros(_)
DropTrailingZeros(s) ==
  IF s # <<>> /\ s[Len(s)] = "0" THEN DropTrailingZeros(SubSeq(s, 1, Len(s) - 1)) ELSE s

Number(neg, intPart, fracPart) ==
  LET f == DropTrailingZeros(fracPart)
  IN <<"#float", IF neg THEN "-" ELSE "+", NatOf(intPart \o f), Len(f)>>

CountChar(s, ch) == Cardinality({i \in 1..Len(s) : s[i] = ch})

\* [sign] digits [. [digits]] or [sign] . digits; anything else is a ValueError
PyFloat(s) ==
  LET neg == s # <<>> /\ Head(s) = "-"
      body == IF neg THEN Tail(s) ELSE s
      dots == CountChar(body, ".")
      digits == RemoveChar(body, ".")
  IN IF digits = <<>> \/ ~AllDecimal(digits) \/ dots > 1 THEN Raise
     ELSE IF dots = 0 THEN Number(neg, body, <<>>)
     ELSE LET k == CHOOSE i \in 1..Len(body) : body[i] = "."
          IN Number(neg, SubSeq(body, 1, k - 1), SubSeq(body, k + 1, Len(body)))

(***************************************************************************)
(* clean_consumption_simple                                                *)
(***************************************************************************)
ConsumptionPlaceholders == {<<"n", "a", "n">>, <<"n", "o", "n", "e">>}

IsConsumptionChar(c) == IsDigit(c) \/ c \in {".", "-"}

\* clean_consumption_body without the replacement of ',' by '.'
clean_consumption_body_nocomma(value) ==
  LET value_str == Strip(Str(value)) IN
  IF value_str = <<>> \/ Lower(value_str) \in ConsumptionPlaceholders THEN None
  ELSE LET nospace == RemoveChar(RemoveChar(value_str, " "), "nbsp")
           cleaned == SelectSeq(nospace, IsConsumptionChar)
       IN IF cleaned = <<>> \/ cleaned = <<"-">> THEN None ELSE PyFloat(cleaned)

\* the statements inside the try block
clean_consumption_body(value) ==
  LET value_str == Strip(Str(value)) IN
  IF value_str = <<>> \/ Lower(value_str) \in ConsumptionPlaceholders THEN None
  ELSE LET nospace == RemoveChar(RemoveChar(value_str, " "), "nbsp")
           dotted == ReplaceChar(nospace, ",", ".")
           cleaned == SelectSeq(dotted, IsConsumptionChar)
       IN IF cleaned = <<>> \/ cleaned = <<"-">> THEN None ELSE PyFloat(cleaned)

\* try: ... except: return None
clean_consumption_simple(value) ==
  LET r == clean_consumption_body(value) IN IF r = Raise THEN None ELSE r

(***************************************************************************)
(* The meter_number and text column lambdas                                *)
(***************************************************************************)
\* the lambda of line 104 doing what the comment of line 100 says: spaces removed
clean_meter_number_spaces_only(value) == RemoveChar(Str(value), " ")

clean_meter_number(value) == KeepDigits(Str(value))

clean_text(value) == ReplaceChar(RemoveChar(Strip(Str(value)), "quote"), "nbsp", " ")

(***************************************************************************)
(* Field texts the cleaners are applied to                                 *)
(***************************************************************************)
Alphabet == {"1", "5", "sup2", ".", "-", ",", " ", "nbsp", "a"}

RECURSIVE TextsOfLen(_)
TextsOfLen(n) ==
  IF n = 0 THEN {<<>>}
  ELSE {<<c>> \o t : c \in Alphabet, t \in TextsOfLen(n - 1)}

ShortTexts == UNION {TextsOfLen(n) : n \in 0..MaxLen}

Dot == <<".">>

TwoDigits == {<<a, b>> : a \in DecimalChars, b \in DecimalChars}

\* DD.MM.YY for every two-digit year
ShortYearDates ==
  {d \o Dot \o m \o Dot \o y :
     d \in {<<"1", "5">>, <<"0", "1">>}, m \in {<<"0", "6">>}, y \in TwoDigits}

\* D.M.YYYY and DD.MM.YYYY
LongYearDates ==
  {d \o Dot \o m \o Dot \o y :
     d \in {<<"1", "5">>, <<"0", "1">>, <<"7">>},
     m \in {<<"0", "6">>, <<"1", "2">>, <<"3">>},
     y \in {<<"2", "0", "2", "3">>, <<"1", "9", "6", "8">>, <<"0", "0", "4", "9">>}}

\* three-part texts with parts of every length from 0 to 5, with and without digits
OddParts ==
  {<<>>, <<"1">>, <<"a">>, <<"1", "2">>, <<"a", "2">>, <<"1", "2", "3">>,
   <<"1", "a", "2", "3", "4">>, <<"1", "2", "3", "4", "5">>, <<"sup2", "3">>,
   <<"sup2", "0", "2", "2">>, <<" ", "1", "2">>}

OddDates == {d \o Dot \o m \o Dot \o y : d \in OddParts, m \in {<<>>, <<"a">>, <<"3">>}, y \in OddParts}

PlaceholderTexts ==
  {<<"n", "a", "n">>, <<"N", "a", "N">>, <<"N", "A", "N">>, <<"n", "o", "n", "e">>,
   <<"N", "o", "n", "e">>, <<"N", "O", "N", "E">>, <<" ", "n", "a", "n", " ">>,
   <<"tab", "N", "o", "n", "e">>, <<>>, <<" ", "nbsp">>}

OtherTexts ==
  {<<"1", " ", "2", "3", "4", ",", "5", "6">>, <<" ", " ", "-">>,
   <<"1", "2", ".", "3", ".", "4">>, <<"2", "0", "2", "2", "-", "0", "3", "-", "0", "5">>,
   <<"1", ".", "2", ".", "3", ".", "4">>, <<"-", "1", "nbsp", "5", "0", "0", ",", "5", "0">>,
   <<"1", "5", "0", "0", "a">>, <<"0", "0", "7", ",">>, <<",", "5">>, <<"-", "0">>,
   <<"1", "-", "2">>, <<"n", "a", "n", "1">>,
   <<"A", "B", "-", "1", "2", "3", " ", "4", "5", "6">>, <<",", "0", "0", "0", "0", "1">>,
   <<"a", " ", "quote">>, <<"quote", "a", "quote">>, <<" ", "quote", "nbsp", "a">>,
   <<"tab", "a", "nbsp", "b", " ">>}

FieldTexts ==
  ShortTexts \cup ShortYearDates \cup LongYearDates \cup OddDates
    \cup PlaceholderTexts \cup OtherTexts

\* what a column can hold after read_csv: a text, or the missing value
FieldValues == FieldTexts \cup {NaN}

(***************************************************************************)
(* State                                                                   *)
(***************************************************************************)
VARIABLES
  arg,               \* the value a function is applied to
  fn,                \* the function that was applied to arg
  res,               \* what the function returned
  file,              \* the input file of clean_csv_data
  pc,                \* the position of clean_csv_data in its body
  encodings_to_try,  \* the list of line 24
  enc_i,             \* position of the loop variable enc in encodings_to_try
  attempts,          \* the read_csv calls made so far, with their outcomes
  read_enc,          \* the encoding of the read_csv call that returned df
  df,                \* the dataframe: a sequence of rows
  initial_count,     \* len(df) before the row filter
  mask,              \* the boolean mask of lines 149-151
  out,               \* the file at output_path
  ret,               \* the return value of clean_csv_data
  out_before,        \* the file at output_path when clean_csv_data was called
  length,            \* len(df) of a dataframe that is represented by its length only
  chunks,            \* the list of line 165, each chunk as the row positions it holds
  chunk_i,           \* position of the loop of lines 171-174 in chunks
  main_pc,           \* the position of the __main__ block
  csv_files,         \* the list of line 215
  file_i,            \* position of the loop variable csv_file in csv_files
  successful,        \* the counter of line 228
  returned,          \* the calls of clean_csv_data that returned, with their results
  run,               \* 1 for a run on a raw file, 2 for a run on the output of run 1
  first_rows,        \* the rows the first run wrote
  session,           \* st.session_state of the dashboard
  clock,             \* datetime.now(), in seconds since the session began
  ticks,             \* how often the clock has advanced
  last_run,          \* what the last run of the app.py script did
  importer,          \* a call of MeterDataImporter.import_from_csv and its database
  pipeline           \* a call of load_or_normalize_data and its files

cleaner_vars == <<arg, fn, res>>

writer_vars == <<length, chunks, chunk_i>>

main_vars == <<main_pc, csv_files, file_i, successful, returned>>

rerun_vars == <<run, first_rows>>

app_vars == <<session, clock, ticks, last_run>>

\* the command-line tools: the database importer and the old pipeline
tool_vars == <<importer, pipeline>>

\* the state of the programs other than data_preprocessing.py and the cleaners
other_vars == <<app_vars, tool_vars>>

\* what the body of clean_csv_data before line 157 leaves alone
caller_vars == <<out_before, writer_vars, main_vars, rerun_vars>>

file_vars ==
  <<file, pc, encodings_to_try, enc_i, attempts, read_enc, df, initial_count, mask, out, ret,
    caller_vars>>

vars ==
  <<arg, fn, res, file, pc, encodings_to_try, enc_i, attempts, read_enc, df, initial_count,
    mask, out, ret, out_before, length, chunks, chunk_i, main_pc, csv_files, file_i,
    successful, returned, run, first_rows, session, clock, ticks, last_run, importer,
    pipeline>>

\* no file at output_path; header counts the header lines of the file
NoOutput == [exists |-> FALSE, header |-> 0, rows |-> <<>>]

\* a file an earlier run left at output_path: a header line and no rows
StaleOutput == [exists |-> TRUE, header |-> 1, rows |-> <<>>]

\* the __main__ block is not running
NoMain ==
  /\ main_pc = "none"
  /\ csv_files = <<>>
  /\ file_i = 0
  /\ successful = 0
  /\ returned = <<>>

\* no dataframe is represented by its length only
NoWriter ==
  /\ length = 0
  /\ chunks = <<>>
  /\ chunk_i = 0

FirstRun ==
  /\ run = 1
  /\ first_rows = <<>>

NoFile ==
  /\ file = [guess |-> "", bytes |-> "", rows |-> <<>>]
  /\ pc = "idle"
  /\ encodings_to_try = <<>>
  /\ enc_i = 0
  /\ attempts = <<>>
  /\ read_enc = ""
  /\ df = <<>>
  /\ initial_count = 0
  /\ mask = <<>>
  /\ out = NoOutput
  /\ ret = "unset"
  /\ out_before = NoOutput
  /\ NoWriter
  /\ NoMain
  /\ FirstRun

NoCleaner ==
  /\ arg = Unset
  /\ fn = "idle"
  /\ res = Unset

\* the dashboard is not running
NoApp ==
  /\ session = <<>>
  /\ clock = 0
  /\ ticks = 0
  /\ last_run = <<>>

\* neither command-line tool is running
NoTools ==
  /\ importer = <<>>
  /\ pipeline = <<>>

NoOther == NoApp /\ NoTools

(***************************************************************************)
(* The field cleaners applied to one value                                 *)
(***************************************************************************)
CleanerInit ==
  /\ arg \in FieldValues
  /\ fn = "none"
  /\ res = Unset
  /\ NoFile
  /\ NoOther

ApplyDate ==
  /\ fn = "none"
  /\ fn' = "date"
  /\ res' = convert_date_vectorized(arg)
  /\ UNCHANGED <<arg, file_vars, other_vars>>

ApplyConsumption ==
  /\ fn = "none"
  /\ fn' = "consumption"
  /\ res' = clean_consumption_simple(arg)
  /\ UNCHANGED <<arg, file_vars, other_vars>>

ApplyMeter ==
  /\ fn = "none"
  /\ fn' = "meter"
  /\ res' = clean_meter_number(arg)
  /\ UNCHANGED <<arg, file_vars, other_vars>>

ApplyText ==
  /\ fn = "none"
  /\ fn' = "text"
  /\ res' = clean_text(arg)
  /\ UNCHANGED <<arg, file_vars, other_vars>>

\* the date cleaner applied to its own result
ApplyDateAgain ==
  /\ fn = "date"
  /\ fn' = "date_again"
  /\ res' = convert_date_vectorized(res)
  /\ UNCHANGED <<arg, file_vars, other_vars>>

CleanerNext ==
  \/ ApplyDate
  \/ ApplyConsumption
  \/ ApplyMeter
  \/ ApplyText
  \/ ApplyDateAgain

CleanerSpec == CleanerInit /\ [][CleanerNext]_vars

(***************************************************************************)
(* Input files of clean_csv_data                                           *)
(*                                                                         *)
(* bytes classifies the content by the codecs that decode it:              *)
(*   "ascii"    bytes below 0x80 only                                      *)
(*   "utf8"     valid UTF-8 with non-ASCII characters, no byte 0x98        *)
(*   "utf8_98"  valid UTF-8 that contains the byte 0x98                    *)
(*   "cp1251"   not valid UTF-8, no byte 0x98                              *)
(*   "other"    not valid UTF-8 and contains the byte 0x98                 *)
(* guess is what chardet reports from the first 10000 bytes; rows are the  *)
(* fields of each line as text.                                            *)
(***************************************************************************)
MaxRows == 2

ByteClasses == {"ascii", "utf8", "utf8_98", "cp1251", "other"}

Guesses == {"None", "windows-1251", "utf-8", "ascii", "EUC-TW"}

AccountTexts == {<<"A", "1">>, <<>>, <<" ">>}

MeterTexts == {<<"M", "-", "1">>, <<"a", "b">>}

DateTexts == {<<"5", ".", "3", ".", "2", "2">>, <<"2", "0", "2", "2", "0", "3", "0", "5">>, <<>>}

OtherFields ==
  {[city |-> <<"C">>, consumption |-> <<"1", ",", "5">>, method |-> <<"m">>],
   [city |-> <<>>, consumption |-> <<"1", "-", "2">>, method |-> <<" ">>]}

SampleRows ==
  {<<o.city, a, m, d, o.consumption, o.method>> :
     o \in OtherFields, a \in AccountTexts, m \in MeterTexts, d \in DateTexts}

GoodRow == <<<<"C">>, <<"A", "1">>, <<"M", "-", "1">>, <<"5", ".", "3", ".", "2", "2">>, <<"1", ",", "5">>, <<"m">>>>

\* a one-row file whose meter_number, reading_date and consumption fields hold
\* the field text t
ProbeFile(t) ==
  [guess |-> "utf-8", bytes |-> "ascii",
   rows |-> <<<<<<"C">>, <<"A", "1">>, t, t, t, <<"m">>>>>>]

\* one-row files that differ in their encoding and in their number of columns
EncodingFiles ==
  {[guess |-> g, bytes |-> b, rows |-> <<r>>] :
     g \in Guesses, b \in ByteClasses,
     r \in {GoodRow, SubSeq(GoodRow, 1, 4), GoodRow \o <<<<"x">>>>,
            <<<<"C">>, <<"A", "1">>, <<"M", "-", "1">>, <<"5", ".", "3", ".", "2", "2">>, <<"1", ",", "5">>, <<>>>>}}

\* the line CityA;ACC1;M-001;05.03.22;1 500,5;manual
ScenarioRow ==
  <<<<"C", "i", "t", "y", "A">>, <<"A", "C", "C", "1">>, <<"M", "-", "0", "0", "1">>,
    <<"0", "5", ".", "0", "3", ".", "2", "2">>, <<"1", " ", "5", "0", "0", ",", "5">>,
    <<"m", "a", "n", "u", "a", "l">>>>

\* the line ;ACC2;M-002;01.01.22;100;auto, whose first field is empty
EmptyFirstFieldRow ==
  <<<<>>, <<"A", "C", "C", "2">>, <<"M", "-", "0", "0", "2">>,
    <<"0", "1", ".", "0", "1", ".", "2", "2">>, <<"1", "0", "0">>, <<"a", "u", "t", "o">>>>

\* a line whose account_number and meter_number are blank
BlankKeysRow == <<<<"C">>, <<" ">>, <<>>, <<"0", "1", ".", "0", "1", ".", "2", "2">>, <<"7">>, <<"m">>>>

ScenarioRows == {ScenarioRow, EmptyFirstFieldRow, BlankKeysRow}


(***************************************************************************)
(* detect_encoding and pd.read_csv                                         *)
(***************************************************************************)
detect_encoding(f) == f.guess

\* the list of line 24 with the candidates utf-8 and cp1251 exchanged
encodings_utf8_first(encoding) ==
  <<encoding, "utf-8-sig", "utf-8", "windows-1251", "cp1251", "MacCyrillic">>

encodings(encoding) ==
  <<encoding, "windows-1251", "cp1251", "utf-8-sig", "utf-8", "MacCyrillic">>

\* the codec Python uses for an encoding name; read_csv(encoding=None) uses utf-8
Codec(enc) ==
  CASE enc \in {"windows-1251", "cp1251"} -> "cp1251"
    [] enc \in {"utf-8-sig", "utf-8", "None", "UTF-8-SIG"} -> "utf-8"
    [] enc = "MacCyrillic" -> "mac_cyrillic"
    [] enc = "ascii" -> "ascii"
    [] OTHER -> "unknown"

\* the outcome of read_csv(file_path, encoding=enc): mac_cyrillic maps every byte
read_csv_outcome(f, enc) ==
  CASE Codec(enc) = "unknown" -> "LookupError"
    [] Codec(enc) = "ascii" -> IF f.bytes = "ascii" THEN "ok" ELSE "UnicodeDecodeError"
    [] Codec(enc) = "utf-8" ->
         IF f.bytes \in {"ascii", "utf8", "utf8_98"} THEN "ok" ELSE "UnicodeDecodeError"
    [] Codec(enc) = "cp1251" ->
         IF f.bytes \in {"ascii", "utf8", "cp1251"} THEN "ok" ELSE "UnicodeDecodeError"
    [] Codec(enc) = "mac_cyrillic" -> "ok"

\* the texts read_csv turns into the missing value (keep_default_na)
NaTexts == {<<>>, <<"n", "a", "n">>, <<"N", "a", "N">>, <<"N", "o", "n", "e">>, <<"N", "A">>}

read_field(t) == IF t \in NaTexts THEN NaN ELSE t

\* header=None, dtype=str: positional columns, one row per line, index 1..n
read_csv(f) ==
  [i \in 1..Len(f.rows) |->
     [index |-> i, cells |-> [k \in 1..Len(f.rows[i]) |-> read_field(f.rows[i][k])]]]

(***************************************************************************)
(* clean_csv_data                                                          *)
(***************************************************************************)
NumEncodings == 6

\* the local variables when clean_csv_data is entered
Entered ==
  /\ pc = "Unparsed"
  /\ encodings_to_try = <<>>
  /\ enc_i = 0
  /\ attempts = <<>>
  /\ read_enc = ""
  /\ df = <<>>
  /\ initial_count = 0
  /\ mask = <<>>
  /\ ret = "unset"

\* one call of clean_csv_data; the output folder is empty, or holds the output
\* of an earlier run
Init ==
  /\ \/ /\ \E n \in 1..MaxRows : \E rs \in [1..n -> SampleRows] :
               file = [guess |-> "utf-8", bytes |-> "ascii", rows |-> rs]
        /\ out_before = NoOutput
     \/ /\ \E t \in FieldTexts : file = ProbeFile(t)
        /\ out_before = NoOutput
     \/ /\ file \in EncodingFiles
        /\ out_before \in {NoOutput, StaleOutput}
     \/ /\ \E n \in 1..MaxRows : \E rs \in [1..n -> ScenarioRows] :
               file = [guess |-> "utf-8", bytes |-> "ascii", rows |-> rs]
        /\ out_before = NoOutput
  /\ out = out_before
  /\ Entered
  /\ NoWriter
  /\ NoMain
  /\ FirstRun
  /\ NoCleaner
  /\ NoOther

\* lines 20-24
DetectEncoding ==
  /\ pc = "Unparsed"
  /\ encodings_to_try' = encodings(detect_encoding(file))
  /\ enc_i' = 1
  /\ pc' = "Reading"
  /\ UNCHANGED <<file, attempts, read_enc, df, initial_count, mask, out, ret, cleaner_vars, caller_vars, other_vars>>

\* lines 26-38: one iteration of the for loop, and its else clause after the last
TryEncoding ==
  /\ pc = "Reading"
  /\ LET enc == encodings_to_try[enc_i]
         outcome == read_csv_outcome(file, enc)
     IN /\ attempts' = Append(attempts, [enc |-> enc, outcome |-> outcome])
        /\ CASE outcome = "ok" ->
                  /\ df' = read_csv(file)
                  /\ read_enc' = enc
                  /\ pc' = "RowsParsed"
                  /\ UNCHANGED <<enc_i, ret>>
             [] outcome = "UnicodeDecodeError" ->
                  /\ IF enc_i < NumEncodings
                       THEN enc_i' = enc_i + 1 /\ UNCHANGED <<pc, ret>>
                       ELSE pc' = "EncodingFailed" /\ ret' = "False" /\ UNCHANGED enc_i
                  /\ UNCHANGED <<df, read_enc>>
             [] OTHER ->
                  /\ pc' = "Error"
                  /\ ret' = "False"
                  /\ UNCHANGED <<enc_i, df, read_enc>>
  /\ UNCHANGED <<file, encodings_to_try, initial_count, mask, out, cleaner_vars, caller_vars, other_vars>>

Columns == <<"city", "account_number", "meter_number", "reading_date", "consumption", "reading_method">>

NumColumns(d) == Len(d[1].cells)

\* df.columns = [...]: the six names replace the positional labels
name_columns(row) ==
  [index |-> row.index,
   city |-> row.cells[1],
   account_number |-> row.cells[2],
   meter_number |-> row.cells[3],
   reading_date |-> row.cells[4],
   consumption |-> row.cells[5],
   reading_method |-> row.cells[6]]

\* CheckColumns that opens the output file before it tests the columns
CheckColumns_opens_output ==
  /\ pc = "RowsParsed"
  /\ out' = [exists |-> TRUE, header |-> 0, rows |-> <<>>]
  /\ IF NumColumns(df) < Len(Columns)
       THEN pc' = "SchemaInvalid" /\ ret' = "False" /\ UNCHANGED df
       ELSE IF NumColumns(df) # Len(Columns)
         THEN pc' = "Error" /\ ret' = "False" /\ UNCHANGED df
         ELSE /\ df' = [i \in 1..Len(df) |-> name_columns(df[i])]
              /\ pc' = "Named"
              /\ UNCHANGED ret
  /\ UNCHANGED <<file, encodings_to_try, enc_i, attempts, read_enc, initial_count, mask,
                 cleaner_vars, caller_vars, other_vars>>

\* CheckColumns that names the first six columns of a wider table
CheckColumns_first_six ==
  /\ pc = "RowsParsed"
  /\ IF NumColumns(df) < Len(Columns)
       THEN pc' = "SchemaInvalid" /\ ret' = "False" /\ UNCHANGED df
       ELSE /\ df' = [i \in 1..Len(df) |-> name_columns(df[i])]
            /\ pc' = "Named"
            /\ UNCHANGED ret
  /\ UNCHANGED <<file, encodings_to_try, enc_i, attempts, read_enc, initial_count, mask, out,
                 cleaner_vars, caller_vars, other_vars>>

\* lines 41-47: fewer than six columns is rejected, more than six makes the
\* assignment of six names raise ValueError
CheckColumns ==
  /\ pc = "RowsParsed"
  /\ IF NumColumns(df) < Len(Columns)
       THEN pc' = "SchemaInvalid" /\ ret' = "False" /\ UNCHANGED df
       ELSE IF NumColumns(df) # Len(Columns)
         THEN pc' = "Error" /\ ret' = "False" /\ UNCHANGED df
         ELSE /\ df' = [i \in 1..Len(df) |-> name_columns(df[i])]
              /\ pc' = "Named"
              /\ UNCHANGED ret
  /\ UNCHANGED <<file, encodings_to_try, enc_i, attempts, read_enc, initial_count, mask, out,
                 cleaner_vars, caller_vars, other_vars>>

HeadRows == 3

Min(a, b) == IF a < b THEN a ELSE b

\* lines 49-52: row['reading_method'][:30] raises TypeError on a missing value
Preview ==
  /\ pc = "Named"
  /\ IF \E i \in 1..Min(HeadRows, Len(df)) : df[i].reading_method = NaN
       THEN pc' = "Error" /\ ret' = "False"
       ELSE pc' = "Previewed" /\ UNCHANGED ret
  /\ UNCHANGED <<file, encodings_to_try, enc_i, attempts, read_enc, df, initial_count, mask,
                 out, cleaner_vars, caller_vars, other_vars>>

\* lines 56-142 for one row: dates, meter numbers, consumption, text columns
clean_row(row) ==
  [index |-> row.index,
   city |-> clean_text(row.city),
   account_number |-> clean_text(row.account_number),
   meter_number |-> clean_meter_number(row.meter_number),
   reading_date |-> convert_date_vectorized(row.reading_date),
   consumption |-> clean_consumption_simple(row.consumption),
   reading_method |-> clean_text(row.reading_method)]

\* an exception that leaves a cleaner reaches the except clause of line 198
CleanFields ==
  /\ pc = "Previewed"
  /\ LET cleaned == [i \in 1..Len(df) |-> clean_row(df[i])]
     IN IF \E i \in 1..Len(df) : cleaned[i].reading_date = Raise \/ cleaned[i].consumption = Raise
          THEN pc' = "Error" /\ ret' = "False" /\ UNCHANGED df
          ELSE pc' = "FieldsCleaned" /\ df' = cleaned /\ UNCHANGED ret
  /\ UNCHANGED <<file, encodings_to_try, enc_i, attempts, read_enc, initial_count, mask, out,
                 cleaner_vars, caller_vars, other_vars>>

\* the mask of lines 149-151 without the meter_number test
row_mask_nometer(row) ==
  /\ Strip(Str(row.account_number)) # <<>>
  /\ row.reading_date \notin {None, NaN}

\* the mask of lines 149-151 with a test of consumption added
row_mask_consumption(row) ==
  /\ Strip(Str(row.account_number)) # <<>>
  /\ row.reading_date \notin {None, NaN}
  /\ Strip(Str(row.meter_number)) # <<>>
  /\ row.consumption \notin {None, NaN}

\* the mask of lines 149-151 with a test of the first column added
row_mask_city(row) ==
  /\ Strip(Str(row.city)) \notin {<<>>, <<"n", "a", "n">>}
  /\ Strip(Str(row.account_number)) # <<>>
  /\ row.reading_date \notin {None, NaN}
  /\ Strip(Str(row.meter_number)) # <<>>

\* lines 149-151
row_mask(row) ==
  /\ Strip(Str(row.account_number)) # <<>>
  /\ row.reading_date \notin {None, NaN}
  /\ Strip(Str(row.meter_number)) # <<>>

RECURSIVE SelectRows(_, _)
SelectRows(d, m) ==
  IF d = <<>> THEN <<>>
  ELSE (IF Head(m) THEN <<Head(d)>> ELSE <<>>) \o SelectRows(Tail(d), Tail(m))

\* FilterRows that takes initial_count after the rows were removed
FilterRows_counts_after ==
  /\ pc = "FieldsCleaned"
  /\ mask' = [i \in 1..Len(df) |-> row_mask(df[i])]
  /\ df' = SelectRows(df, mask')
  /\ initial_count' = Len(df')
  /\ pc' = "RowsValidated"
  /\ UNCHANGED <<file, encodings_to_try, enc_i, attempts, read_enc, out, ret, cleaner_vars, caller_vars, other_vars>>

\* lines 146-155
FilterRows ==
  /\ pc = "FieldsCleaned"
  /\ initial_count' = Len(df)
  /\ mask' = [i \in 1..Len(df) |-> row_mask(df[i])]
  /\ df' = SelectRows(df, mask')
  /\ pc' = "RowsValidated"
  /\ UNCHANGED <<file, encodings_to_try, enc_i, attempts, read_enc, out, ret, cleaner_vars, caller_vars, other_vars>>

ChunkThreshold == 500000

ChunkSize == 200000

\* DataFrame.to_csv(output_path, mode=mode, header=header) that writes all of
\* items: mode 'w' replaces the content of the file, mode 'a' adds to it
to_csv(content, items, mode, header) ==
  IF mode = "w"
    THEN [exists |-> TRUE, header |-> IF header THEN 1 ELSE 0, rows |-> items]
    ELSE [exists |-> TRUE,
          header |-> content.header + (IF header THEN 1 ELSE 0),
          rows |-> content.rows \o items]

\* lines 158-177 for a dataframe of at most 500000 rows, written by line 177
WriteOutput ==
  /\ pc = "RowsValidated"
  /\ Len(df) <= ChunkThreshold
  /\ out' = to_csv(out, df, "w", TRUE)
  /\ pc' = "Persisted"
  /\ UNCHANGED <<file, encodings_to_try, enc_i, attempts, read_enc, df, initial_count, mask,
                 ret, cleaner_vars, caller_vars, other_vars>>

\* lines 179-196
ReturnTrue ==
  /\ pc = "Persisted"
  /\ ret' = "True"
  /\ pc' = "Returned"
  /\ UNCHANGED <<file, encodings_to_try, enc_i, attempts, read_enc, df, initial_count, mask,
                 out, cleaner_vars, caller_vars, other_vars>>

Next ==
  \/ DetectEncoding
  \/ TryEncoding
  \/ CheckColumns
  \/ Preview
  \/ CleanFields
  \/ FilterRows
  \/ WriteOutput
  \/ ReturnTrue

Spec == Init /\ [][Next]_vars

(***************************************************************************)
(* A second run: clean_csv_data called on the file a first run wrote       *)
(*                                                                         *)
(* to_csv writes the header line and one line per row: a text as it is, a  *)
(* missing value as an empty field, a float by its repr.  The file starts  *)
(* with the UTF-8 byte order mark, which chardet reports as UTF-8-SIG.     *)
(***************************************************************************)
RECURSIVE NatText(_)
NatText(n) ==
  IF n < 10 THEN <<DecimalDigit(n)>> ELSE NatText(n \div 10) \o <<DecimalDigit(n % 10)>>

RECURSIVE Zeros(_)
Zeros(n) == IF n = 0 THEN <<>> ELSE <<"0">> \o Zeros(n - 1)

\* repr of the float mantissa / 10^frac: positional for a decimal exponent
\* in -4..15, exponent notation otherwise
float_repr(v) ==
  LET sign == IF v[2] = "-" THEN <<"-">> ELSE <<>>
      digits == NatText(v[3])
      frac == v[4]
      exponent == Len(digits) - 1 - frac
      short == DropTrailingZeros(digits)
  IN IF v[3] = 0 THEN sign \o <<"0", ".", "0">>
     ELSE IF exponent >= -4 /\ exponent < 16
       THEN IF frac = 0 THEN sign \o digits \o <<".", "0">>
            ELSE IF Len(digits) > frac
              THEN sign \o SubSeq(digits, 1, Len(digits) - frac) \o <<".">>
                     \o SubSeq(digits, Len(digits) - frac + 1, Len(digits))
              ELSE sign \o <<"0", ".">> \o Zeros(frac - Len(digits)) \o digits
       ELSE sign \o <<Head(short)>>
              \o (IF Len(short) > 1 THEN <<".">> \o Tail(short) ELSE <<>>)
              \o <<"e", IF exponent < 0 THEN "-" ELSE "+">>
              \o ZFill(NatText(IF exponent < 0 THEN -exponent ELSE exponent), 2)

to_csv_field(v) ==
  CASE v \in {None, NaN} -> <<>>
    [] v # <<>> /\ Head(v) = "#float" -> float_repr(v)
    [] OTHER -> v

HeaderLine ==
  <<<<"c", "i", "t", "y">>,
    <<"a", "c", "c", "o", "u", "n", "t", "_", "n", "u", "m", "b", "e", "r">>,
    <<"m", "e", "t", "e", "r", "_", "n", "u", "m", "b", "e", "r">>,
    <<"r", "e", "a", "d", "i", "n", "g", "_", "d", "a", "t", "e">>,
    <<"c", "o", "n", "s", "u", "m", "p", "t", "i", "o", "n">>,
    <<"r", "e", "a", "d", "i", "n", "g", "_", "m", "e", "t", "h", "o", "d">>>>

to_csv_line(row) ==
  <<to_csv_field(row.city), to_csv_field(row.account_number),
    to_csv_field(row.meter_number), to_csv_field(row.reading_date),
    to_csv_field(row.consumption), to_csv_field(row.reading_method)>>

\* the file of line 177 as an input file
written_file(content) ==
  [guess |-> "UTF-8-SIG", bytes |-> "utf8",
   rows |-> <<HeaderLine>> \o [i \in 1..Len(content.rows) |-> to_csv_line(content.rows[i])]]

\* a one-row file whose city and reading_method fields hold the text t
TextProbeFile(t) ==
  [guess |-> "utf-8", bytes |-> "ascii",
   rows |-> <<<<t, <<"A", "1">>, <<"7">>, <<"2", "0", "2", "2", "-", "0", "3", "-", "0", "5">>,
               <<"5">>, t>>>>]

TextProbes == {<<"a", " ", "quote">>, <<"quote", "a", "quote">>, <<"a", "nbsp", "b">>}

RerunInit ==
  /\ \/ \E r \in SampleRows : file = [guess |-> "utf-8", bytes |-> "ascii", rows |-> <<r>>]
     \/ \E t \in FieldTexts : file = ProbeFile(t)
     \/ \E t \in TextProbes : file = TextProbeFile(t)
  /\ out_before = NoOutput
  /\ out = NoOutput
  /\ Entered
  /\ NoWriter
  /\ NoMain
  /\ FirstRun
  /\ NoCleaner
  /\ NoOther

\* clean_csv_data is called on the file the first run wrote; its output path
\* is a new one (line 158)
RunAgain ==
  /\ pc = "Returned"
  /\ run = 1
  /\ run' = 2
  /\ first_rows' = out.rows
  /\ file' = written_file(out)
  /\ out_before' = NoOutput
  /\ out' = NoOutput
  /\ pc' = "Unparsed"
  /\ encodings_to_try' = <<>>
  /\ enc_i' = 0
  /\ attempts' = <<>>
  /\ read_enc' = ""
  /\ df' = <<>>
  /\ initial_count' = 0
  /\ mask' = <<>>
  /\ ret' = "unset"
  /\ UNCHANGED <<writer_vars, main_vars, cleaner_vars, other_vars>>

RerunNext ==
  \/ DetectEncoding
  \/ TryEncoding
  \/ CheckColumns
  \/ Preview
  \/ CleanFields
  \/ FilterRows
  \/ WriteOutput
  \/ ReturnTrue
  \/ RunAgain

RerunSpec == RerunInit /\ [][RerunNext]_vars

(***************************************************************************)
(* The writer of lines 161-177 on large dataframes                         *)
(*                                                                         *)
(* A dataframe of several hundred thousand rows is represented by its      *)
(* length; its rows are named by their positions 0..length-1.  The file at *)
(* output_path then holds blocks of row positions: the block [from, to]    *)
(* stands for the lines of the rows from, ..., to - 1.  A to_csv call can  *)
(* fail with OSError before it opens the file or after it wrote a part.    *)
(***************************************************************************)
MaxBlocks == 7

HalfChunk == ChunkSize \div 2

\* lengths at and next to the multiples of 100000
WriterLengths ==
  {n \in {k * HalfChunk + d : k \in 0..MaxBlocks, d \in {-1, 0, 1}} : n >= 0}

Block(from, to) == [from |-> from, to |-> to]

\* line 165 without the last, shorter chunk
chunk_list_full_only(n) ==
  [k \in 1..(n \div ChunkSize) |-> Block((k - 1) * ChunkSize, k * ChunkSize)]

\* line 165: [df[i:i + 200000] for i in range(0, len(df), 200000)]
chunk_list(n) ==
  [k \in 1..((n + ChunkSize - 1) \div ChunkSize) |->
     Block((k - 1) * ChunkSize, Min(k * ChunkSize, n))]

WriteOutcomes == {"ok", "open_failed", "write_failed"}

\* the file after a to_csv call of one block with the given outcome; a call
\* that fails while writing leaves the first half of the block
to_csv_outcome(content, block, mode, header, outcome) ==
  CASE outcome = "ok" -> to_csv(content, <<block>>, mode, header)
    [] outcome = "open_failed" -> content
    [] outcome = "write_failed" ->
         to_csv(content,
                <<Block(block.from, block.from + (block.to - block.from) \div 2)>>,
                mode, header)

WriterInit ==
  /\ length \in WriterLengths
  /\ chunks = <<>>
  /\ chunk_i = 0
  /\ pc = "RowsValidated"
  /\ out_before \in {NoOutput, StaleOutput}
  /\ out = out_before
  /\ ret = "unset"
  /\ file = [guess |-> "", bytes |-> "", rows |-> <<>>]
  /\ encodings_to_try = <<>>
  /\ enc_i = 0
  /\ attempts = <<>>
  /\ read_enc = ""
  /\ df = <<>>
  /\ initial_count = 0
  /\ mask = <<>>
  /\ NoMain
  /\ FirstRun
  /\ NoCleaner
  /\ NoOther

\* line 177, and lines 198-202 when to_csv raises
WriteWhole ==
  /\ pc = "RowsValidated"
  /\ length <= ChunkThreshold
  /\ \E outcome \in WriteOutcomes :
       /\ out' = to_csv_outcome(out, Block(0, length), "w", TRUE, outcome)
       /\ IF outcome = "ok"
            THEN pc' = "Persisted" /\ UNCHANGED ret
            ELSE pc' = "Error" /\ ret' = "False"
  /\ UNCHANGED <<file, encodings_to_try, enc_i, attempts, read_enc, df, initial_count, mask,
                 out_before, writer_vars, main_vars, rerun_vars, cleaner_vars, other_vars>>

\* lines 162-165
SplitChunks ==
  /\ pc = "RowsValidated"
  /\ length > ChunkThreshold
  /\ chunks' = chunk_list(length)
  /\ pc' = "Chunked"
  /\ UNCHANGED <<file, encodings_to_try, enc_i, attempts, read_enc, df, initial_count, mask,
                 out, ret, out_before, length, chunk_i, main_vars, rerun_vars, cleaner_vars, other_vars>>

\* line 168, and lines 198-202 when to_csv raises
WriteFirstChunk ==
  /\ pc = "Chunked"
  /\ \E outcome \in WriteOutcomes :
       /\ out' = to_csv_outcome(out, chunks[1], "w", TRUE, outcome)
       /\ IF outcome = "ok"
            THEN pc' = "Appending" /\ chunk_i' = 2 /\ UNCHANGED ret
            ELSE pc' = "Error" /\ ret' = "False" /\ UNCHANGED chunk_i
  /\ UNCHANGED <<file, encodings_to_try, enc_i, attempts, read_enc, df, initial_count, mask,
                 out_before, length, chunks, main_vars, rerun_vars, cleaner_vars, other_vars>>

\* lines 171-174: one iteration of the loop over chunks[1:], and lines 198-202
\* when to_csv raises
AppendChunk ==
  /\ pc = "Appending"
  /\ \E outcome \in WriteOutcomes :
       /\ out' = to_csv_outcome(out, chunks[chunk_i], "a", FALSE, outcome)
       /\ IF outcome = "ok"
            THEN /\ IF chunk_i < Len(chunks)
                      THEN chunk_i' = chunk_i + 1 /\ UNCHANGED pc
                      ELSE pc' = "Persisted" /\ UNCHANGED chunk_i
                 /\ UNCHANGED ret
            ELSE pc' = "Error" /\ ret' = "False" /\ UNCHANGED chunk_i
  /\ UNCHANGED <<file, encodings_to_try, enc_i, attempts, read_enc, df, initial_count, mask,
                 out_before, length, chunks, main_vars, rerun_vars, cleaner_vars, other_vars>>

WriterNext ==
  \/ WriteWhole
  \/ SplitChunks
  \/ WriteFirstChunk
  \/ AppendChunk
  \/ ReturnTrue

WriterSpec == WriterInit /\ [][WriterNext]_vars

(***************************************************************************)
(* The __main__ block: clean_csv_data called for every file of csv_files   *)
(***************************************************************************)
MaxFiles == 2

\* a row that is persisted as it is read
PlainRow ==
  <<<<"C">>, <<"A", "1">>, <<"7">>, <<"2", "0", "2", "2", "-", "0", "3", "-", "0", "5">>,
    <<"5">>, <<"m">>>>

\* a file that is persisted, a file of four columns, a file whose detected
\* encoding Python does not know, a file whose reading_method is empty
BatchFiles ==
  {[guess |-> "utf-8", bytes |-> "ascii", rows |-> <<PlainRow>>],
   [guess |-> "windows-1251", bytes |-> "cp1251", rows |-> <<SubSeq(PlainRow, 1, 4)>>],
   [guess |-> "EUC-TW", bytes |-> "cp1251", rows |-> <<PlainRow>>],
   [guess |-> "None", bytes |-> "utf8",
    rows |-> <<SubSeq(PlainRow, 1, 5) \o <<<<>>>>>>]}

BatchInit ==
  /\ csv_files \in UNION {[1..n -> BatchFiles] : n \in 0..MaxFiles}
  /\ main_pc = "start"
  /\ file_i = 0
  /\ successful = 0
  /\ returned = <<>>
  /\ file = [guess |-> "", bytes |-> "", rows |-> <<>>]
  /\ pc = "idle"
  /\ encodings_to_try = <<>>
  /\ enc_i = 0
  /\ attempts = <<>>
  /\ read_enc = ""
  /\ df = <<>>
  /\ initial_count = 0
  /\ mask = <<>>
  /\ out = NoOutput
  /\ ret = "unset"
  /\ out_before = NoOutput
  /\ NoWriter
  /\ FirstRun
  /\ NoCleaner
  /\ NoOther

\* lines 217-219
NoFiles ==
  /\ main_pc = "start"
  /\ csv_files = <<>>
  /\ main_pc' = "exit"
  /\ UNCHANGED <<csv_files, file_i, successful, returned, file, pc, encodings_to_try, enc_i,
                 attempts, read_enc, df, initial_count, mask, out, ret, out_before,
                 writer_vars, rerun_vars, cleaner_vars, other_vars>>

\* lines 221-228
StartBatch ==
  /\ main_pc = "start"
  /\ csv_files # <<>>
  /\ successful' = 0
  /\ file_i' = 1
  /\ main_pc' = "loop"
  /\ UNCHANGED <<csv_files, returned, file, pc, encodings_to_try, enc_i, attempts, read_enc,
                 df, initial_count, mask, out, ret, out_before, writer_vars, rerun_vars,
                 cleaner_vars, other_vars>>

\* lines 229-230: the next file is handed to clean_csv_data; every input file
\* has an output path of its own
CallClean ==
  /\ main_pc = "loop"
  /\ file_i <= Len(csv_files)
  /\ main_pc' = "call"
  /\ file' = csv_files[file_i]
  /\ out_before' = NoOutput
  /\ out' = NoOutput
  /\ pc' = "Unparsed"
  /\ encodings_to_try' = <<>>
  /\ enc_i' = 0
  /\ attempts' = <<>>
  /\ read_enc' = ""
  /\ df' = <<>>
  /\ initial_count' = 0
  /\ mask' = <<>>
  /\ ret' = "unset"
  /\ UNCHANGED <<csv_files, file_i, successful, returned, writer_vars, rerun_vars, cleaner_vars, other_vars>>

\* ReturnToMain that leaves the loop when clean_csv_data returned False
ReturnToMain_stops_on_failure ==
  /\ main_pc = "call"
  /\ ret # "unset"
  /\ successful' = IF ret = "True" THEN successful + 1 ELSE successful
  /\ returned' = Append(returned, [file |-> file_i, result |-> ret])
  /\ file_i' = file_i + 1
  /\ main_pc' = IF ret = "True" THEN "loop" ELSE "done"
  /\ UNCHANGED <<csv_files, file, pc, encodings_to_try, enc_i, attempts, read_enc, df,
                 initial_count, mask, out, ret, out_before, writer_vars, rerun_vars,
                 cleaner_vars, other_vars>>

\* lines 230-231: clean_csv_data has returned
ReturnToMain ==
  /\ main_pc = "call"
  /\ ret # "unset"
  /\ successful' = IF ret = "True" THEN successful + 1 ELSE successful
  /\ returned' = Append(returned, [file |-> file_i, result |-> ret])
  /\ file_i' = file_i + 1
  /\ main_pc' = "loop"
  /\ UNCHANGED <<csv_files, file, pc, encodings_to_try, enc_i, attempts, read_enc, df,
                 initial_count, mask, out, ret, out_before, writer_vars, rerun_vars,
                 cleaner_vars, other_vars>>

\* lines 233-236: the loop is exhausted
Finish ==
  /\ main_pc = "loop"
  /\ file_i > Len(csv_files)
  /\ main_pc' = "done"
  /\ UNCHANGED <<csv_files, file_i, successful, returned, file, pc, encodings_to_try, enc_i,
                 attempts, read_enc, df, initial_count, mask, out, ret, out_before,
                 writer_vars, rerun_vars, cleaner_vars, other_vars>>

BatchNext ==
  \/ NoFiles
  \/ StartBatch
  \/ CallClean
  \/ DetectEncoding
  \/ TryEncoding
  \/ CheckColumns
  \/ Preview
  \/ CleanFields
  \/ FilterRows
  \/ WriteOutput
  \/ ReturnTrue
  \/ ReturnToMain
  \/ Finish

\* the script is one sequential process: a step that can be taken is taken
BatchSpec == BatchInit /\ [][BatchNext]_vars /\ WF_vars(BatchNext)

(***************************************************************************)
(* The derived features: GasDataCleaner.clean_data (polars) and            *)
(* normalize_data (pandas), each on a dataframe of one row                 *)
(*                                                                         *)
(* arg is the input dataframe; res holds the dataframe each of the two     *)
(* functions returned, fn which of them have been applied.                 *)
(***************************************************************************)
TwoDigitText(n) == <<DecimalDigit(n \div 10), DecimalDigit(n % 10)>>

FeatureYears == {<<"2", "0", "2", "2">>, <<"2", "0", "2", "3">>}

FeatureDays == {1, 15, 28}

\* DD.MM.YYYY for every month of the year
FeatureDates ==
  {TwoDigitText(dd) \o Dot \o TwoDigitText(mm) \o Dot \o y :
     dd \in FeatureDays, mm \in 1..12, y \in FeatureYears}

FeatureConsumptions == {0, 7}

\* strptime and to_datetime with format %d.%m.%Y
strptime(text) ==
  LET parts == Split(text, ".")
  IN [year |-> NatOf(parts[3]), month |-> NatOf(parts[2]), day |-> NatOf(parts[1])]

\* cleaner.py lines 33-40
season_when(month) ==
  IF month \in {12, 1, 2} THEN "winter"
  ELSE IF month \in {3, 4, 5} THEN "spring"
  ELSE IF month \in {6, 7, 8} THEN "summer"
  ELSE "autumn"

\* cleaner.py lines 43-46
heating_when(month) == IF month \in {10, 11, 12, 1, 2, 3, 4} THEN 1 ELSE 0

\* clean_data for one row: rows with gas_consumption > 0 are kept
clean_data_row(row) ==
  LET date_norm == strptime(row.date)
  IN [date |-> row.date,
      date_norm |-> date_norm,
      gas_consumption |-> row.gas_consumption,
      month |-> date_norm.month,
      year |-> date_norm.year,
      quarter |-> (date_norm.month - 1) \div 3 + 1,
      season |-> season_when(date_norm.month),
      heating_season |-> heating_when(date_norm.month)]

\* cleaner.py line 24
HasPositiveConsumption(row) == row.gas_consumption > 0

clean_data(d) ==
  LET kept == SelectSeq(d, HasPositiveConsumption)
  IN [i \in 1..Len(kept) |-> clean_data_row(kept[i])]

\* clean_data on a table of any columns: pl.col("date") and
\* pl.col("gas_consumption") raise ColumnNotFoundError when the table lacks
\* the column, and strptime raises when a text is not of the form DD.MM.YYYY
clean_data_table(d) ==
  IF \A i \in 1..Len(d) :
        /\ {"date", "gas_consumption"} \subseteq DOMAIN d[i]
        /\ Len(Split(d[i].date, ".")) = 3
        /\ \A part \in {1, 2, 3} : AllDecimal(Split(d[i].date, ".")[part])
    THEN [raised |-> FALSE, rows |-> clean_data(d)]
    ELSE [raised |-> TRUE, rows |-> <<>>]

\* get_season with the winter months taken as 1, 2, 3
get_season_shifted(month) ==
  IF month \in {1, 2, 3} THEN "winter"
  ELSE IF month \in {4, 5, 6} THEN "spring"
  ELSE IF month \in {7, 8, 9} THEN "summer"
  ELSE "autumn"

\* download_normalize.py lines 70-78
get_season(month) ==
  IF month \in {12, 1, 2} THEN "winter"
  ELSE IF month \in {3, 4, 5} THEN "spring"
  ELSE IF month \in {6, 7, 8} THEN "summer"
  ELSE "autumn"

\* download_normalize.py lines 85-87
heating_lambda(x) == IF x \in {10, 11, 12, 1, 2, 3, 4} THEN 1 ELSE 0

\* normalize_data for one row; sort_values leaves a dataframe of one row as it is
normalize_data_row(row) ==
  LET date == strptime(row.date)
  IN [date |-> date,
      gas_consumption |-> row.gas_consumption,
      month |-> date.month,
      year |-> date.year,
      season |-> get_season(date.month),
      heating_season |-> heating_lambda(date.month)]

normalize_data(d) == [i \in 1..Len(d) |-> normalize_data_row(d[i])]

FeatureInit ==
  /\ \E t \in FeatureDates : \E c \in FeatureConsumptions :
       arg = <<[date |-> t, gas_consumption |-> c]>>
  /\ fn = "none"
  /\ res = [clean_data |-> <<>>, normalize_data |-> <<>>]
  /\ NoFile
  /\ NoOther

ApplyCleanData ==
  /\ fn \in {"none", "normalize_data"}
  /\ fn' = IF fn = "none" THEN "clean_data" ELSE "both"
  /\ res' = [res EXCEPT !.clean_data = clean_data(arg)]
  /\ UNCHANGED <<arg, file_vars, other_vars>>

ApplyNormalizeData ==
  /\ fn \in {"none", "clean_data"}
  /\ fn' = IF fn = "none" THEN "normalize_data" ELSE "both"
  /\ res' = [res EXCEPT !.normalize_data = normalize_data(arg)]
  /\ UNCHANGED <<arg, file_vars, other_vars>>

FeatureNext == ApplyCleanData \/ ApplyNormalizeData

FeatureSpec == FeatureInit /\ [][FeatureNext]_vars

(***************************************************************************)
(* The dashboard: app.py with modules/db_loader.py, modules/data_loader.py *)
(* and the analysis tabs.                                                  *)
(*                                                                         *)
(* A dataframe is the list of its column names and the list of its rows.   *)
(* A date is a record of year, month and day, NaT the date that is         *)
(* missing; a number is a record with its value, NaNNumber the number that *)
(* is missing.  A key of st.session_state that is not set is Absent.       *)
(***************************************************************************)
MaxTicks == 3

MaxDbRows == 2

RefreshSeconds == 1800

SecondsPerDay == 86400

Date(y, m, d) == [nat |-> FALSE, year |-> y, month |-> m, day |-> d]

NaT == [nat |-> TRUE, year |-> 0, month |-> 0, day |-> 0]

Num(v) == [nan |-> FALSE, v |-> v]

NaNNumber == [nan |-> TRUE, v |-> 0]

Absent == [set |-> FALSE]

Present(v) == [set |-> TRUE, value |-> v]

NoFrame == [none |-> TRUE, columns |-> <<>>, rows |-> <<>>]

Frame(columns, rows) == [none |-> FALSE, columns |-> columns, rows |-> rows]

\* the number of days from 1970-01-01 to the date
Ordinal(d) ==
  LET y == IF d.month <= 2 THEN d.year - 1 ELSE d.year
      era == y \div 400
      yoe == y - era * 400
      mp == IF d.month > 2 THEN d.month - 3 ELSE d.month + 9
      doy == (153 * mp + 2) \div 5 + d.day - 1
      doe == yoe * 365 + yoe \div 4 - yoe \div 100 + doy
  IN era * 146097 + doe - 719468

\* Series.dt.weekday: Monday is 0
weekday(d) == (Ordinal(d) + 3) % 7

DaysInMonth(y, m) ==
  IF m = 2 THEN (IF y % 4 = 0 /\ (y % 100 # 0 \/ y % 400 = 0) THEN 29 ELSE 28)
  ELSE IF m \in {4, 6, 9, 11} THEN 30 ELSE 31

\* date - pd.DateOffset(months=1): the same day of the month before, or its last day
MonthBefore(d) ==
  LET y == IF d.month = 1 THEN d.year - 1 ELSE d.year
      m == IF d.month = 1 THEN 12 ELSE d.month - 1
  IN Date(y, m, Min(d.day, DaysInMonth(y, m)))

\* Series.min() and Series.max() of a column of dates: NaT for no rows
DateMin(rows) ==
  IF rows = <<>> THEN NaT
  ELSE rows[CHOOSE i \in 1..Len(rows) :
              \A j \in 1..Len(rows) : Ordinal(rows[i].date_parsed) <= Ordinal(rows[j].date_parsed)].date_parsed

DateMax(rows) ==
  IF rows = <<>> THEN NaT
  ELSE rows[CHOOSE i \in 1..Len(rows) :
              \A j \in 1..Len(rows) : Ordinal(rows[i].date_parsed) >= Ordinal(rows[j].date_parsed)].date_parsed

\* Series.nunique()
nunique(rows, column) == Cardinality({rows[i][column] : i \in 1..Len(rows)})

\* DataFrame.drop_duplicates(): the first of equal rows is kept
RECURSIVE drop_duplicates(_)
drop_duplicates(rows) ==
  IF rows = <<>> THEN <<>>
  ELSE LET before == drop_duplicates(SubSeq(rows, 1, Len(rows) - 1))
           last == rows[Len(rows)]
       IN IF \E i \in 1..Len(before) : before[i] = last THEN before ELSE Append(before, last)

\* dropna(subset=['date_parsed', 'gas_consumption'])
HasDateAndConsumption(row) == ~row.date_parsed.nat /\ ~row.gas_consumption.nan

(***************************************************************************)
(* The answers of the database and the uploaded files                      *)
(***************************************************************************)
SampleDates == {Date(2024, 1, 15), Date(2024, 2, 29), NaT}

\* a row of the query of lines 153-166; date and gas_consumption may be NULL
DbRow(management, subscriber_id, date, gas_consumption) ==
  [management |-> management, subscriber_id |-> subscriber_id, md_id |-> "md", date |-> date,
   gas_consumption |-> gas_consumption, source |-> "src", created_at |-> 0]

DbRows ==
  {DbRow("m1", "s1", Date(2024, 1, 15), Num(5)),
   DbRow("m2", "s2", Date(2024, 2, 29), Num(9)),
   DbRow("m1", "s2", NaT, NaNNumber)}

\* psycopg2.connect fails, the query raises, or the query returns rows
Refused == [conn |-> "refused", raised |-> FALSE, rows |-> <<>>]

QueryFailed == [conn |-> "ok", raised |-> TRUE, rows |-> <<>>]

Answer(rows) == [conn |-> "ok", raised |-> FALSE, rows |-> rows]

\* the lines of an uploaded file: the date is text
UploadRows ==
  {[management |-> "m1", subscriber_id |-> "s1", md_id |-> "md",
    date |-> <<"1", "5", ".", "0", "1", ".", "2", "0", "2", "4">>,
    gas_consumption |-> Num(5), source |-> "src"],
   [management |-> "m2", subscriber_id |-> "s2", md_id |-> "md",
    date |-> <<"2", "0", "2", "4", "-", "0", "2", "-", "2", "9">>,
    gas_consumption |-> Num(9), source |-> "src"],
   [management |-> "m2", subscriber_id |-> "s1", md_id |-> "md",
    date |-> <<"2", "9", ".", "0", "2", ".", "2", "0", "2", "4">>,
    gas_consumption |-> Num(3), source |-> "src"]}

(***************************************************************************)
(* modules/db_loader.py and modules/data_loader.py                         *)
(***************************************************************************)
DbColumns ==
  <<"management", "subscriber_id", "md_id", "date", "gas_consumption", "source", "created_at",
    "date_parsed", "year", "month", "day", "weekday">>

\* line 191
parsed_row(row) ==
  [management |-> row.management, subscriber_id |-> row.subscriber_id, md_id |-> row.md_id,
   date |-> row.date, gas_consumption |-> row.gas_consumption, source |-> row.source,
   created_at |-> row.created_at, date_parsed |-> row.date]

\* lines 198-201
db_row(row) ==
  [management |-> row.management, subscriber_id |-> row.subscriber_id, md_id |-> row.md_id,
   date |-> row.date, gas_consumption |-> row.gas_consumption, source |-> row.source,
   created_at |-> row.created_at, date_parsed |-> row.date_parsed,
   year |-> row.date_parsed.year, month |-> row.date_parsed.month,
   day |-> row.date_parsed.day, weekday |-> weekday(row.date_parsed)]

\* lines 176-201: duplicates removed, date_parsed added, rows without a date
\* or a number removed, year, month, day and weekday added
db_frame(rows) ==
  LET unique == drop_duplicates(rows)
      parsed == [i \in 1..Len(unique) |-> parsed_row(unique[i])]
      kept == SelectSeq(parsed, HasDateAndConsumption)
  IN Frame(DbColumns, [i \in 1..Len(kept) |-> db_row(kept[i])])

\* lines 212-221
data_meta_of(frame, now) ==
  [loaded_at |-> now,
   total_records |-> Len(frame.rows),
   date_range |-> [min |-> DateMin(frame.rows), max |-> DateMax(frame.rows)],
   unique_subscribers |-> nunique(frame.rows, "subscriber_id"),
   unique_managements |-> nunique(frame.rows, "management")]

\* load_data_from_db that stores the dataframe before it looks at the answer
load_data_from_db_stores_first(s, now, db) ==
  LET stored == [s EXCEPT !.df = db_frame(db.rows), !.processed = TRUE]
  IN IF db.conn = "refused" THEN [session |-> s, returned |-> "None"]
     ELSE IF db.raised \/ db.rows = <<>> THEN [session |-> stored, returned |-> "None"]
     ELSE [session |-> [stored EXCEPT !.last_update = Present(now),
                                      !.data_meta = Present(data_meta_of(stored.df, now))],
           returned |-> "df"]

\* load_data_from_db: the session state after the call and what was returned
load_data_from_db(s, now, db) ==
  IF db.conn = "refused" THEN [session |-> s, returned |-> "None"]
  ELSE IF db.raised THEN [session |-> s, returned |-> "None"]
  ELSE IF db.rows = <<>> THEN [session |-> s, returned |-> "None"]
  ELSE LET frame == db_frame(db.rows)
       IN [session |-> [s EXCEPT !.df = frame,
                                 !.processed = TRUE,
                                 !.last_update = Present(now),
                                 !.data_meta = Present(data_meta_of(frame, now))],
           returned |-> "df"]

\* pd.to_datetime(text, format='%d.%m.%Y', errors='coerce')
to_datetime_coerce(text) ==
  LET parts == Split(text, ".")
  IN IF /\ Len(parts) = 3
        /\ \A k \in 1..3 : parts[k] # <<>> /\ AllDecimal(parts[k])
        /\ NatOf(parts[2]) \in 1..12
        /\ NatOf(parts[1]) \in 1..DaysInMonth(NatOf(parts[3]), NatOf(parts[2]))
       THEN Date(strptime(text).year, strptime(text).month, strptime(text).day)
       ELSE NaT

UploadColumns ==
  <<"management", "subscriber_id", "md_id", "date", "gas_consumption", "source", "date_parsed">>

upload_row(row) ==
  [management |-> row.management, subscriber_id |-> row.subscriber_id, md_id |-> row.md_id,
   date |-> row.date, gas_consumption |-> row.gas_consumption, source |-> row.source,
   date_parsed |-> to_datetime_coerce(row.date)]

\* data_loader.load_data: the session state after the call; a file read_csv
\* cannot read leaves it as it was
load_data(s, upload) ==
  IF ~upload.readable THEN s
  ELSE LET unique == drop_duplicates(upload.rows)
           parsed == [i \in 1..Len(unique) |-> upload_row(unique[i])]
       IN [s EXCEPT !.df = Frame(UploadColumns, SelectSeq(parsed, HasDateAndConsumption)),
                    !.processed = TRUE]

(***************************************************************************)
(* The analysis tabs.  A result table is represented by its key column and *)
(* the sums and counts of its groups; the means, deviations and scores     *)
(* computed from them are not represented.                                 *)
(***************************************************************************)
Values(rows, column) == {rows[i][column] : i \in 1..Len(rows)}

RowsWhere(rows, column, value) == {i \in 1..Len(rows) : rows[i][column] = value}

RECURSIVE SumOver(_, _)
SumOver(rows, positions) ==
  IF positions = {} THEN 0
  ELSE LET i == CHOOSE p \in positions : TRUE
       IN rows[i].gas_consumption.v + SumOver(rows, positions \ {i})

\* groupby(column) with sum and count of gas_consumption
group_by(rows, column) ==
  {[key |-> k, total |-> SumOver(rows, RowsWhere(rows, column, k)),
    count |-> Cardinality(RowsWhere(rows, column, k))] : k \in Values(rows, column)}

\* df['month'] = df['date_parsed'].dt.month: the column is written into the
\* dataframe itself, added as its last column when it has none of that name
set_month(frame) ==
  [frame EXCEPT
     !.columns = IF \E k \in 1..Len(frame.columns) : frame.columns[k] = "month"
                   THEN frame.columns ELSE Append(frame.columns, "month"),
     !.rows = [i \in 1..Len(frame.rows) |->
                 [c \in DOMAIN frame.rows[i] \cup {"month"} |->
                    IF c = "month" THEN frame.rows[i].date_parsed.month ELSE frame.rows[i][c]]]]

\* clustering.py lines 65-81: the dataframe the caller passed, as the call
\* leaves it, and the table returned
prepare_customer_stats(frame) ==
  [df |-> set_month(frame), customer_stats |-> group_by(frame.rows, "subscriber_id")]

\* anomalies.py lines 65-106: the rows of the last month grouped by subscriber
detect_anomalies(frame) ==
  LET last_month == MonthBefore(DateMax(frame.rows))
      IsRecent(row) == Ordinal(row.date_parsed) >= Ordinal(last_month)
      IsHistorical(row) == Ordinal(row.date_parsed) < Ordinal(last_month)
  IN [df |-> frame,
      anomaly_data |-> [recent |-> group_by(SelectSeq(frame.rows, IsRecent), "subscriber_id"),
                        historical |-> group_by(SelectSeq(frame.rows, IsHistorical), "subscriber_id")]]

ForecastEntities == {"all", "management", "subscriber"}

\* forecasting.py lines 91-116: gas_consumption summed by date
build_forecast(frame, forecast_entity, management, subscriber) ==
  LET OfManagement(row) == row.management = management
      OfSubscriber(row) == row.subscriber_id = subscriber
      chosen == IF forecast_entity = "all" THEN frame.rows
                ELSE IF forecast_entity = "management" THEN SelectSeq(frame.rows, OfManagement)
                ELSE SelectSeq(frame.rows, OfSubscriber)
  IN [df |-> frame, forecast_data |-> group_by(chosen, "date_parsed")]

\* overview.py lines 53-66: a copy of the dataframe, filtered
apply_filters(frame, management_filter, date_range) ==
  LET OfManagement(row) == management_filter = "all" \/ row.management = management_filter
      InRange(row) ==
        Len(date_range) = 2 =>
           /\ Ordinal(row.date_parsed) >= Ordinal(date_range[1])
           /\ Ordinal(row.date_parsed) <= Ordinal(date_range[2])
      Kept(row) == OfManagement(row) /\ InRange(row)
  IN [df |-> frame, filtered_df |-> Frame(frame.columns, SelectSeq(frame.rows, Kept))]

(***************************************************************************)
(* One run of the app.py script, staged by last_run.pc:                    *)
(*   idle -> sidebar -> refresh -> tabs -> footer -> idle                  *)
(* event is the button of the sidebar pressed in the run, if any.  The     *)
(* buttons of the analysis tabs are the actions of AnalysisSpec.           *)
(***************************************************************************)
Durations == {RefreshSeconds, RefreshSeconds + 1, SecondsPerDay + 600}

Events == {"none", "load_db_data", "force_refresh"}

DbAnswers ==
  {Refused, QueryFailed} \cup
  {Answer(rows) : rows \in UNION {[1..n -> DbRows] : n \in 0..MaxDbRows}}

Uploads ==
  {[readable |-> FALSE, rows |-> <<>>]} \cup
  {[readable |-> TRUE, rows |-> rows] : rows \in UNION {[1..n -> UploadRows] : n \in 1..MaxDbRows}}

Idle ==
  [pc |-> "idle", event |-> "none", auto_refresh |-> FALSE, elapsed |-> -1, reloaded |-> FALSE,
   returned |-> "none", called |-> "none", failed |-> FALSE]

\* config.init_session_state: no dataframe, no last_update, no data_meta
NewSession ==
  [df |-> NoFrame, processed |-> FALSE, last_update |-> Absent, data_meta |-> Absent,
   clusters |-> Absent, anomalies |-> Absent, forecast |-> Absent]

AppInit ==
  /\ session = NewSession
  /\ clock = 0
  /\ ticks = 0
  /\ last_run = Idle
  /\ NoFile
  /\ NoCleaner
  /\ NoTools

\* time passes between two runs of the script
Tick ==
  /\ last_run.pc = "idle"
  /\ ticks < MaxTicks
  /\ \E d \in Durations : clock' = clock + d
  /\ ticks' = ticks + 1
  /\ UNCHANGED <<session, last_run, cleaner_vars, file_vars, tool_vars>>

\* app.py lines 66-85: the script starts; the button of line 169 exists only
\* while a dataframe is loaded
StartRun ==
  /\ last_run.pc = "idle"
  /\ \E event \in Events, auto_refresh \in BOOLEAN :
       /\ event = "force_refresh" => ~session.df.none
       /\ last_run' = [Idle EXCEPT !.pc = "sidebar", !.event = event,
                                   !.auto_refresh = auto_refresh]
  /\ UNCHANGED <<session, clock, ticks, cleaner_vars, file_vars, tool_vars>>

\* app.py line 86, db_loader.py lines 96-139
Sidebar ==
  /\ last_run.pc = "sidebar"
  /\ IF last_run.event = "load_db_data"
       THEN \E db \in DbAnswers :
              LET call == load_data_from_db(session, clock, db)
              IN /\ session' = call.session
                 /\ last_run' = [last_run EXCEPT !.pc = "refresh", !.returned = call.returned]
       ELSE /\ last_run' = [last_run EXCEPT !.pc = "refresh", !.returned = "none"]
            /\ UNCHANGED session
  /\ UNCHANGED <<clock, ticks, cleaner_vars, file_vars, tool_vars>>

\* timedelta.seconds: the seconds of the difference without its whole days
seconds(elapsed) == elapsed % SecondsPerDay

\* app.py lines 88-101
AutoRefresh ==
  /\ last_run.pc = "refresh"
  /\ IF last_run.auto_refresh
       THEN LET started == IF session.last_update.set THEN session
                           ELSE [session EXCEPT !.last_update = Present(clock)]
                time_since_update == seconds(clock - started.last_update.value)
            IN IF time_since_update > RefreshSeconds /\ ~started.df.none
                 THEN \E db \in DbAnswers :
                        LET call == load_data_from_db(started, clock, db)
                        IN /\ session' = call.session
                           /\ last_run' = [last_run EXCEPT
                                             !.pc = "tabs",
                                             !.elapsed = clock - started.last_update.value,
                                             !.reloaded = TRUE,
                                             !.returned = call.returned]
                 ELSE /\ session' = started
                      /\ last_run' = [last_run EXCEPT
                                        !.pc = "tabs",
                                        !.elapsed = clock - started.last_update.value,
                                        !.returned = "none"]
       ELSE /\ last_run' = [last_run EXCEPT !.pc = "tabs", !.returned = "none"]
            /\ UNCHANGED session
  /\ UNCHANGED <<clock, ticks, cleaner_vars, file_vars, tool_vars>>

\* app.py lines 108-117: strftime of a date range that is NaT raises
MetaShown == ~(session.data_meta.set /\ session.data_meta.value.date_range.min.nat)

\* app.py lines 104-149: the welcome screen, or the sidebar text and the tabs
Tabs ==
  /\ last_run.pc = "tabs"
  /\ IF session.df.none \/ MetaShown
       THEN last_run' = [last_run EXCEPT !.pc = "footer", !.returned = "none"]
       ELSE last_run' = [last_run EXCEPT !.pc = "idle", !.returned = "none", !.failed = TRUE]
  /\ UNCHANGED <<session, clock, ticks, cleaner_vars, file_vars, tool_vars>>

\* app.py lines 164-175
Footer ==
  /\ last_run.pc = "footer"
  /\ IF ~session.df.none /\ last_run.event = "force_refresh"
       THEN \E db \in DbAnswers :
              LET call == load_data_from_db(session, clock, db)
              IN /\ session' = call.session
                 /\ last_run' = [last_run EXCEPT !.pc = "idle", !.returned = call.returned]
       ELSE /\ last_run' = [last_run EXCEPT !.pc = "idle", !.returned = "none"]
            /\ UNCHANGED session
  /\ UNCHANGED <<clock, ticks, cleaner_vars, file_vars, tool_vars>>

AppNext ==
  \/ Tick
  \/ StartRun
  \/ Sidebar
  \/ AutoRefresh
  \/ Tabs
  \/ Footer

AppSpec == AppInit /\ [][AppNext]_vars

(***************************************************************************)
(* The analysis functions called on the dataframe of the session, in any   *)
(* order and any number of times.  The dataframe was stored by             *)
(* load_data_from_db or by data_loader.load_data.                          *)
(***************************************************************************)
AnalysisInit ==
  /\ \/ \E db \in DbAnswers :
          /\ load_data_from_db(NewSession, 0, db).returned = "df"
          /\ session = load_data_from_db(NewSession, 0, db).session
     \/ \E upload \in Uploads :
          /\ upload.readable
          /\ session = load_data(NewSession, upload)
  /\ clock = 0
  /\ ticks = 0
  /\ last_run = Idle
  /\ NoFile
  /\ NoCleaner
  /\ NoTools

\* overview.render line 39
ApplyFilters ==
  /\ \E management_filter \in {"all"} \cup Values(session.df.rows, "management") :
     \E date_range \in {<<DateMin(session.df.rows), DateMax(session.df.rows)>>,
                        <<DateMax(session.df.rows), DateMax(session.df.rows)>>,
                        <<DateMin(session.df.rows)>>} :
        session' = [session EXCEPT
                      !.df = apply_filters(session.df, management_filter, date_range).df]
  /\ last_run' = [last_run EXCEPT !.called = "apply_filters"]
  /\ UNCHANGED <<clock, ticks, cleaner_vars, file_vars, tool_vars>>

\* clustering.render lines 45-62: KMeans needs as many rows as clusters, an
\* exception is reported and leaves st.session_state.clusters as it was
PrepareCustomerStats ==
  /\ \E n_clusters \in {2, 5} :
       LET call == prepare_customer_stats(session.df)
       IN session' = [session EXCEPT
                        !.df = call.df,
                        !.clusters = IF Cardinality(call.customer_stats) >= n_clusters
                                       THEN Present(call.customer_stats) ELSE @]
  /\ last_run' = [last_run EXCEPT !.called = "prepare_customer_stats"]
  /\ UNCHANGED <<clock, ticks, cleaner_vars, file_vars, tool_vars>>

\* anomalies.render lines 47-63: an empty table makes the detector raise
DetectAnomalies ==
  /\ LET call == detect_anomalies(session.df)
     IN session' = [session EXCEPT
                      !.df = call.df,
                      !.anomalies = IF call.anomaly_data.recent # {}
                                      THEN Present(call.anomaly_data) ELSE @]
  /\ last_run' = [last_run EXCEPT !.called = "detect_anomalies"]
  /\ UNCHANGED <<clock, ticks, cleaner_vars, file_vars, tool_vars>>

\* forecasting.render lines 24-44: no data to forecast from makes the forecast raise
BuildForecast ==
  /\ \E forecast_entity \in ForecastEntities :
     \E management \in {"m1", "m2"}, subscriber \in {"s1", "s2"} :
       LET call == build_forecast(session.df, forecast_entity, management, subscriber)
       IN session' = [session EXCEPT
                        !.df = call.df,
                        !.forecast = IF call.forecast_data # {}
                                       THEN Present(call.forecast_data) ELSE @]
  /\ last_run' = [last_run EXCEPT !.called = "build_forecast"]
  /\ UNCHANGED <<clock, ticks, cleaner_vars, file_vars, tool_vars>>

AnalysisNext ==
  \/ ApplyFilters
  \/ PrepareCustomerStats
  \/ DetectAnomalies
  \/ BuildForecast

AnalysisSpec == AnalysisInit /\ [][AnalysisNext]_vars

(***************************************************************************)
(* The database importer: MeterDataImporter.import_from_csv of             *)
(* src/data_processing/import_data.py.  The database is the set of its     *)
(* location names, the set of its meters and the set of its readings; a    *)
(* meter is identified by its code and location, a reading by its meter    *)
(* and date, as the statements of lines 75-124 identify them.  The         *)
(* connection runs with autocommit off (line 23): the statements of one    *)
(* call form one transaction on a working copy, and once the server has    *)
(* rejected a statement it rejects every later statement of that           *)
(* transaction and ends it with a rollback when asked to commit.           *)
(***************************************************************************)
MaxImportRows == 3

\* the text of a date field: day.month.year with a year of two or four digits
DateText(day, month, year, digits) ==
  [day |-> day, month |-> month, year |-> year, digits |-> digits]

\* a date field that neither format of parse_date reads
BadDateText == DateText(0, 0, 0, 0)

\* import_data.py lines 34-40: '%d.%m.%Y' reads a four-digit year, and when it
\* raises '%d.%m.%y' reads a two-digit year, 00-68 as 2000-2068 and 69-99 as
\* 1969-1999; when both raise, the second exception leaves parse_date
parse_date(date_str) ==
  IF date_str.digits = 4
    THEN [raised |-> FALSE, date |-> Date(date_str.year, date_str.month, date_str.day)]
    ELSE IF date_str.digits = 2
           THEN [raised |-> FALSE,
                 date |-> Date(IF date_str.year < 69 THEN 2000 + date_str.year
                                                     ELSE 1900 + date_str.year,
                               date_str.month, date_str.day)]
           ELSE [raised |-> TRUE, date |-> NaT]

\* a cell of the value column as read_csv returns it
IntCell(n) == [kind |-> "int", n |-> n, tenths |-> 0, text |-> <<>>]

FloatCell(n, tenths) == [kind |-> "float", n |-> n, tenths |-> tenths, text |-> <<>>]

NaNCell == [kind |-> "nan", n |-> 0, tenths |-> 0, text |-> <<>>]

TextCell(text) == [kind |-> "str", n |-> 0, tenths |-> 0, text |-> text]

\* import_data.py line 68, int(row['value']): an integer as it is, a float
\* without its fraction, a text of digits as its number; NaN and any other
\* text raise
int_of(cell) ==
  IF cell.kind \in {"int", "float"}
    THEN [raised |-> FALSE, n |-> cell.n]
    ELSE IF /\ cell.kind = "str"
            /\ Strip(cell.text) # <<>>
            /\ \A k \in 1..Len(Strip(cell.text)) : Strip(cell.text)[k] \in DecimalChars
           THEN [raised |-> FALSE, n |-> NatOf(Strip(cell.text))]
           ELSE [raised |-> TRUE, n |-> 0]

\* .replace('"', '') of lines 64, 65 and 69
without_quotes(s) == SelectSeq(s, LAMBDA c : c # "quote")

\* import_data.py lines 64-72: the values of one row, or the exception of
\* line 68 or of line 72
import_values(row) ==
  [raised |-> int_of(row.value).raised \/ parse_date(row.date).raised,
   location |-> without_quotes(Strip(row.location)),
   meter_code |-> without_quotes(Strip(row.meter_code)),
   serial |-> Strip(row.serial),
   value |-> int_of(row.value).n,
   reading_type |-> without_quotes(Strip(row.type)),
   reading_date |-> parse_date(row.date).date]

\* lines 75-88: the location is selected by its name and inserted when absent
with_location(db, location) == [db EXCEPT !.locations = @ \cup {location}]

\* lines 91-111: the meter is selected by code and location; its serial number
\* is updated when it exists, and it is inserted when it does not
with_meter(db, c) ==
  [db EXCEPT !.meters =
     {m \in @ : ~(m.meter_code = c.meter_code /\ m.location = c.location)}
       \cup {[meter_code |-> c.meter_code, location |-> c.location,
              meter_serial |-> c.serial]}]

\* lines 114-124: the reading is inserted, or replaces the reading of the same
\* meter and date
with_reading(db, c) ==
  [db EXCEPT !.readings =
     {r \in @ : ~(/\ r.meter_code = c.meter_code /\ r.location = c.location
                  /\ r.reading_date = c.reading_date)}
       \cup {[meter_code |-> c.meter_code, location |-> c.location,
              reading_date |-> c.reading_date, value |-> c.value,
              reading_type |-> c.reading_type]}]

EmptyDatabase == [locations |-> {}, meters |-> {}, readings |-> {}]

\* a database that holds one reading of meter M1 of location A already
FilledDatabase ==
  [locations |-> {<<"A">>},
   meters |-> {[meter_code |-> <<"M", "1">>, location |-> <<"A">>,
                meter_serial |-> <<"S", "0">>]},
   readings |-> {[meter_code |-> <<"M", "1">>, location |-> <<"A">>,
                  reading_date |-> Date(2022, 3, 5), value |-> 1,
                  reading_type |-> <<"a">>]}]

\* a row of the file; accepted tells whether the server takes the row's
\* statements, that is whether its values fit the columns and constraints of
\* the tables
CsvRow(location, meter_code, serial, date, value, type, accepted) ==
  [location |-> location, meter_code |-> meter_code, serial |-> serial, date |-> date,
   value |-> value, type |-> type, accepted |-> accepted]

ImportRows ==
  { CsvRow(<<"A">>, <<"M", "1">>, <<"S", "1">>, DateText(5, 3, 2022, 4), IntCell(7),
           <<"m">>, TRUE),
    CsvRow(<<"quote", "A", "quote", " ">>, <<"M", "1">>, <<"S", "2">>, DateText(5, 3, 22, 2),
           FloatCell(9, 5), <<"m">>, TRUE),
    CsvRow(<<"B">>, <<"M", "1">>, <<"S", "3">>, DateText(6, 3, 2022, 4), TextCell(<<"4", "2">>),
           <<"a">>, TRUE),
    CsvRow(<<"B">>, <<"M", "2">>, <<"S", "4">>, DateText(6, 3, 2022, 4), IntCell(8),
           <<"a">>, FALSE),
    CsvRow(<<"A">>, <<"M", "3">>, <<"S", "5">>, DateText(7, 3, 2022, 4), NaNCell,
           <<"m">>, TRUE),
    CsvRow(<<"B">>, <<"M", "4">>, <<"S", "6">>, BadDateText, IntCell(3), <<"m">>, TRUE) }

\* the importer after connect() and before import_from_csv is called
ImportInit ==
  /\ \E n \in 1..MaxImportRows : \E rows \in [1..n -> ImportRows] :
     \E readable \in BOOLEAN : \E db \in {EmptyDatabase, FilledDatabase} :
       importer = [pc |-> "read", readable |-> readable, rows |-> rows, i |-> 0,
                   imported_count |-> 0, skipped_count |-> 0, counted |-> <<>>,
                   before |-> db, committed |-> db, working |-> db, aborted |-> FALSE,
                   returned |-> <<>>]
  /\ pipeline = <<>>
  /\ NoApp
  /\ NoFile
  /\ NoCleaner

\* one pass of the loop of lines 61-130 over row: an exception of lines 64-72,
\* or of a statement the server rejects, is caught at line 128
import_row(st, row) ==
  LET c == import_values(row)
      skipped == [st EXCEPT !.skipped_count = @ + 1, !.counted = Append(@, "skipped")]
  IN  IF c.raised \/ st.aborted
        THEN skipped
        ELSE IF ~row.accepted
               THEN [skipped EXCEPT !.aborted = TRUE]
               ELSE [st EXCEPT !.working = with_reading(with_meter(with_location(@, c.location),
                                                                    c), c),
                               !.imported_count = @ + 1,
                               !.counted = Append(@, "imported")]

\* lines 44-59, and lines 142-145 when read_csv raises
ImportReadCsv ==
  /\ importer # <<>>
  /\ importer.pc = "read"
  /\ importer' = IF importer.readable
                   THEN [importer EXCEPT !.pc = "rows", !.i = 1]
                   ELSE [importer EXCEPT !.pc = "done", !.working = importer.committed,
                                         !.returned = <<0>>]
  /\ UNCHANGED <<app_vars, pipeline, cleaner_vars, file_vars>>

\* lines 61-130 for the row at position i
ImportRow ==
  /\ importer # <<>>
  /\ importer.pc = "rows"
  /\ importer.i <= Len(importer.rows)
  /\ importer' = [import_row(importer, importer.rows[importer.i]) EXCEPT !.i = @ + 1]
  /\ UNCHANGED <<app_vars, pipeline, cleaner_vars, file_vars>>

\* lines 132-140: commit() makes the working copy the database, or ends a
\* transaction the server has aborted with a rollback; imported_count is returned
ImportCommit ==
  /\ importer # <<>>
  /\ importer.pc = "rows"
  /\ importer.i > Len(importer.rows)
  /\ importer' = [importer EXCEPT
                    !.pc = "done",
                    !.committed = IF importer.aborted THEN @ ELSE importer.working,
                    !.working = IF importer.aborted THEN importer.committed ELSE @,
                    !.returned = <<importer.imported_count>>]
  /\ UNCHANGED <<app_vars, pipeline, cleaner_vars, file_vars>>

ImportNext == ImportReadCsv \/ ImportRow \/ ImportCommit

ImportSpec == ImportInit /\ [][ImportNext]_vars

(***************************************************************************)
(* The old pipeline: load_or_normalize_data of old/download_normalize.py,  *)
(* called through main() by run_full_pipeline of old/run_pipeline.py.      *)
(* A cell carries the dtype pandas gives its column; a file holds the      *)
(* texts to_csv wrote.                                                     *)
(***************************************************************************)
MaxRawRows == 3

MaxCalls == 2

\* download_normalize.py line 41
RawColumns == <<"management", "subscriber_id", "md_id", "date", "gas_consumption", "source">>

\* the columns normalize_data adds, lines 80-90
NormalizedColumns == RawColumns \o <<"month", "year", "season", "heating_season", "month_name">>

Int64(v) == [dtype |-> "int64", v |-> v]

\* astype(str) of line 67
AsStr(cell) == [dtype |-> "object", v |-> cell.v]

\* a gas_consumption field that is no number
NotANumber == [dtype |-> "object", v |-> 0]

\* to_numeric(errors='coerce') of lines 65-66
to_numeric_coerce(cell) == IF cell.dtype = "object" THEN NaNNumber ELSE Num(cell.v)

\* to_datetime(format='%d.%m.%Y') of line 62, which raises on a text of
\* another form
to_datetime_strict(date_str) ==
  IF date_str.digits = 4
    THEN [raised |-> FALSE, date |-> Date(date_str.year, date_str.month, date_str.day)]
    ELSE [raised |-> TRUE, date |-> NaT]

\* strftime('%B') of line 90
month_name(month) ==
  <<"January", "February", "March", "April", "May", "June", "July", "August",
    "September", "October", "November", "December">>[month]

\* a row of the raw file as read_csv of lines 35-42 returns it
RawRow(management, subscriber_id, date, gas_consumption) ==
  [management |-> management, subscriber_id |-> Int64(subscriber_id), md_id |-> Int64(1),
   date |-> date, gas_consumption |-> gas_consumption, source |-> "src"]

RawRows ==
  { RawRow("m1", 101, DateText(15, 11, 2023, 4), Int64(7)),
    RawRow("m2", 102, DateText(5, 3, 2022, 4), NotANumber),
    RawRow("m1", 103, DateText(20, 7, 2023, 4), Int64(0)),
    RawRow("m2", 104, BadDateText, Int64(5)) }

\* download_normalize.py lines 59-90 for one row
normalized_row(row) ==
  LET date == to_datetime_strict(row.date).date
  IN [management |-> row.management,
      subscriber_id |-> AsStr(row.subscriber_id),
      md_id |-> to_numeric_coerce(row.md_id),
      date |-> date,
      gas_consumption |-> to_numeric_coerce(row.gas_consumption),
      source |-> row.source,
      month |-> date.month,
      year |-> date.year,
      season |-> get_season(date.month),
      heating_season |-> heating_lambda(date.month),
      month_name |-> month_name(date.month)]

\* sort_values('date') of line 93
RECURSIVE sort_values(_)
sort_values(rows) ==
  IF rows = <<>> THEN <<>>
  ELSE LET first == CHOOSE i \in 1..Len(rows) :
                      /\ \A j \in 1..Len(rows) : Ordinal(rows[i].date) <= Ordinal(rows[j].date)
                      /\ \A j \in 1..(i - 1) : Ordinal(rows[j].date) > Ordinal(rows[i].date)
       IN <<rows[first]>>
            \o sort_values([k \in 1..(Len(rows) - 1) |->
                              IF k < first THEN rows[k] ELSE rows[k + 1]])

\* download_normalize.py lines 57-95 on a dataframe of any number of rows
normalize_frame(frame) ==
  IF \E i \in 1..Len(frame.rows) : to_datetime_strict(frame.rows[i].date).raised
    THEN [raised |-> TRUE, df |-> NoFrame]
    ELSE [raised |-> FALSE,
          df |-> Frame(NormalizedColumns,
                       sort_values([i \in 1..Len(frame.rows) |->
                                      normalized_row(frame.rows[i])]))]

\* to_csv of line 52: every cell becomes its text
written_row(row) ==
  [c \in DOMAIN row |->
     IF c \in {"subscriber_id"} THEN [text_of |-> "int", v |-> row[c].v]
     ELSE IF c \in {"md_id", "gas_consumption"}
            THEN IF row[c].nan THEN [text_of |-> "empty", v |-> 0]
                               ELSE [text_of |-> "number", v |-> row[c].v]
     ELSE IF c = "date" THEN [text_of |-> "date", v |-> Ordinal(row[c])]
     ELSE IF c \in {"month", "year", "heating_season"} THEN [text_of |-> "int", v |-> row[c]]
     ELSE [text_of |-> "str", v |-> row[c]]]

\* the date of a number of days since 1970-01-01, for the dates of RawRows
DateOfOrdinal(n) ==
  CHOOSE d \in {Date(r.date.year, r.date.month, r.date.day) : r \in RawRows} : Ordinal(d) = n

\* read_csv(parse_dates=['date']) of line 27: the dtypes are inferred from
\* the texts, so a column of digits is a column of integers
read_row(line) ==
  [c \in DOMAIN line |->
     IF c = "subscriber_id" THEN Int64(line[c].v)
     ELSE IF c \in {"md_id", "gas_consumption"}
            THEN IF line[c].text_of = "empty" THEN NaNNumber ELSE Num(line[c].v)
     ELSE IF c = "date" THEN DateOfOrdinal(line[c].v)
     ELSE line[c].v]

NoNormalizedFile == [exists |-> FALSE, columns |-> <<>>, lines |-> <<>>]

to_csv_frame(frame) ==
  [exists |-> TRUE, columns |-> frame.columns,
   lines |-> [i \in 1..Len(frame.rows) |-> written_row(frame.rows[i])]]

read_csv_frame(f) == Frame(f.columns, [i \in 1..Len(f.lines) |-> read_row(f.lines[i])])

\* download_normalize.py lines 15-55; the exceptions of lines 35 and 44 leave
\* the function before line 52
load_or_normalize_data(files) ==
  IF files.normalized_file.exists
    THEN [files |-> files, branch |-> "loaded", raised |-> FALSE,
          df |-> read_csv_frame(files.normalized_file)]
    ELSE IF ~files.raw_file.exists \/ normalize_frame(Frame(RawColumns, files.raw_file.rows)).raised
           THEN [files |-> files, branch |-> "created", raised |-> TRUE, df |-> NoFrame]
           ELSE LET raw_df == Frame(RawColumns, files.raw_file.rows)
                    normalized_df == normalize_frame(raw_df).df
                IN [files |-> [files EXCEPT !.normalized_file = to_csv_frame(normalized_df)],
                    branch |-> "created", raised |-> FALSE, df |-> raw_df]

\* the files before the first call: the raw file may be missing, and the
\* normalized file may be left from an earlier run
PipelineInit ==
  /\ \E raw_exists \in BOOLEAN : \E n \in 0..MaxRawRows : \E rows \in [1..n -> RawRows] :
     \E left \in BOOLEAN :
       /\ raw_exists \/ n = 0
       /\ left => ~normalize_frame(Frame(RawColumns, rows)).raised
       /\ pipeline =
            [files |-> [raw_file |-> [exists |-> raw_exists, rows |-> rows],
                        normalized_file |->
                          IF left
                            THEN to_csv_frame(normalize_frame(Frame(RawColumns, rows)).df)
                            ELSE NoNormalizedFile],
             calls |-> <<>>]
  /\ importer = <<>>
  /\ NoApp
  /\ NoFile
  /\ NoCleaner

\* run_pipeline.py line 26 and download_normalize.py lines 97-115: main()
\* returns what load_or_normalize_data returned, or None when it raised
RunPipeline ==
  /\ pipeline # <<>>
  /\ Len(pipeline.calls) < MaxCalls
  /\ LET call == load_or_normalize_data(pipeline.files)
     IN pipeline' = [files |-> call.files,
                     calls |-> Append(pipeline.calls,
                                      [branch |-> call.branch, raised |-> call.raised,
                                       df |-> call.df])]
  /\ UNCHANGED <<app_vars, importer, cleaner_vars, file_vars>>

PipelineNext == RunPipeline

PipelineSpec == PipelineInit /\ [][PipelineNext]_vars

(***************************************************************************)
(* Properties of the date cleaner                                          *)
(***************************************************************************)
Pad2(s) == IF Len(s) = 1 THEN <<"0">> \o s ELSE s

Dash == <<"-">>

DateParts(t) == Split(t, ".")

\* t is D.M.YYYY or DD.MM.YYYY with decimal digits only
IsLongYearDate(t) ==
  /\ t # NaN
  /\ Len(DateParts(t)) = 3
  /\ \A k \in 1..2 : Len(DateParts(t)[k]) \in {1, 2} /\ AllDecimal(DateParts(t)[k])
  /\ Len(DateParts(t)[3]) = 4 /\ AllDecimal(DateParts(t)[3])

\* C5: a DD.MM.YYYY input with a four-digit year and numeric day and month is
\* returned as YYYY-MM-DD with the same year, month and day, day and month
\* padded with zeros to two digits.
C5_LongYearDateToIso ==
  (fn = "date" /\ IsLongYearDate(arg)) =>
     res = DateParts(arg)[3] \o Dash \o Pad2(DateParts(arg)[2]) \o Dash \o Pad2(DateParts(arg)[1])

C5_Witness ==
  /\ fn = "date"
  /\ arg = <<"7", ".", "1", "2", ".", "1", "9", "6", "8">>
  /\ res = <<"1", "9", "6", "8", "-", "1", "2", "-", "0", "7">>

\* t is DD.MM.YY with decimal digits only
IsShortYearDate(t) ==
  /\ t # NaN
  /\ Len(DateParts(t)) = 3
  /\ \A k \in 1..3 : Len(DateParts(t)[k]) = 2 /\ AllDecimal(DateParts(t)[k])

Century(yy) == IF yy[1] \in {"0", "1", "2", "3", "4"} THEN <<"2", "0">> ELSE <<"1", "9">>

\* C6: a DD.MM.YY input yields year 20YY for YY in 00..49 and 19YY for YY in
\* 50..99; 15.06.23 gives 2023-06-15 and 15.06.68 gives 1968-06-15.
C6_TwoDigitYearCentury ==
  /\ (fn = "date" /\ IsShortYearDate(arg)) =>
        res = Century(DateParts(arg)[3]) \o DateParts(arg)[3] \o Dash
                \o DateParts(arg)[2] \o Dash \o DateParts(arg)[1]
  /\ (fn = "date" /\ arg = <<"1", "5", ".", "0", "6", ".", "2", "3">>) =>
        res = <<"2", "0", "2", "3", "-", "0", "6", "-", "1", "5">>
  /\ (fn = "date" /\ arg = <<"1", "5", ".", "0", "6", ".", "6", "8">>) =>
        res = <<"1", "9", "6", "8", "-", "0", "6", "-", "1", "5">>

C6_Witness ==
  /\ fn = "date"
  /\ arg = <<"0", "1", ".", "0", "6", ".", "5", "0">>
  /\ res = <<"1", "9", "5", "0", "-", "0", "6", "-", "0", "1">>

DigitsOf(s) == SelectSeq(s, IsDigit)

\* t has three '.'-separated parts and its year part has a number of digits
\* other than 2 and 4
HasOddYear(t) ==
  /\ Len(DateParts(t)) = 3
  /\ Len(DigitsOf(DateParts(t)[3])) \notin {2, 4}

\* t has three '.'-separated parts, one of which has no digit
HasPartWithoutDigit(t) ==
  /\ Len(DateParts(t)) = 3
  /\ \E k \in 1..3 : DigitsOf(DateParts(t)[k]) = <<>>

\* t is 'nan', 'none' or '' in any letter case
IsPlaceholder(t) == Lower(t) \in {<<"n", "a", "n">>, <<"n", "o", "n", "e">>, <<>>}

\* C7: the date cleaner returns null for a three-part input whose year has a
\* number of digits other than 2 and 4, for a three-part input with a part
\* that has no digit, and for an empty or placeholder input.
C7_DateNull ==
  (fn = "date" /\ arg # NaN
     /\ (HasOddYear(Strip(arg)) \/ HasPartWithoutDigit(Strip(arg)) \/ IsPlaceholder(Strip(arg))))
    => res = None

C7_Witness ==
  /\ fn = "date"
  /\ arg = <<"1", ".", "3", ".", "1", "2", "3">>
  /\ res = None

(***************************************************************************)
(* Properties of the consumption cleaner                                   *)
(***************************************************************************)
\* the number a text of digits, '.' and '-' denotes, None when it denotes none
RefNumber(s) ==
  LET neg == Head(s) = "-"
      body == IF neg THEN Tail(s) ELSE s
      parts == Split(body, ".")
  IN IF /\ Len(parts) \in {1, 2}
        /\ \A k \in 1..Len(parts) : AllDecimal(parts[k])
        /\ \E k \in 1..Len(parts) : parts[k] # <<>>
       THEN Number(neg, parts[1], IF Len(parts) = 2 THEN parts[2] ELSE <<>>)
       ELSE None

RefConsumption(t) ==
  LET trimmed == Strip(t)
      nospace == SelectSeq(trimmed, LAMBDA c : c \notin {" ", "nbsp"})
      dotted == [i \in 1..Len(nospace) |-> IF nospace[i] = "," THEN "." ELSE nospace[i]]
      kept == SelectSeq(dotted, LAMBDA c : IsDigit(c) \/ c = "." \/ c = "-")
  IN IF kept = <<>> \/ kept = <<"-">> THEN None ELSE RefNumber(kept)

\* C8: the consumption cleaner equals the reference (trim, remove spaces and
\* non-breaking spaces, ',' to '.', keep digits '.' and '-', null when empty
\* or '-', else the number denoted or null); '1 234,56' gives 1234.56, ''
\* and '  -' give null, '12.3.4' gives null.
C8_ConsumptionReference ==
  /\ (fn = "consumption" /\ arg # NaN) => res = RefConsumption(arg)
  /\ (fn = "consumption" /\ arg = <<"1", " ", "2", "3", "4", ",", "5", "6">>) =>
        res = <<"#float", "+", 123456, 2>>
  /\ (fn = "consumption" /\ arg \in {<<>>, <<" ", " ", "-">>, <<"1", "2", ".", "3", ".", "4">>}) =>
        res = None

C8_Witness ==
  /\ fn = "consumption"
  /\ arg = <<"1", " ", "2", "3", "4", ",", "5", "6">>
  /\ res = <<"#float", "+", 123456, 2>>

(***************************************************************************)
(* Properties of clean_csv_data                                            *)
(***************************************************************************)
\* the three conditions of the row filter, on a row after field cleaning
KeyFieldsPresent(row) ==
  /\ Strip(row.account_number) # <<>>
  /\ row.reading_date # None
  /\ Strip(row.meter_number) # <<>>

Indexes(d) == {d[k].index : k \in 1..Len(d)}

\* C1: the row filter keeps a row if and only if, after field cleaning, its
\* trimmed account_number is non-empty, its reading_date is non-null and its
\* trimmed meter_number is non-empty; city, consumption and reading_method
\* do not influence survival.
C1_RowFilter ==
  [][pc = "FieldsCleaned" =>
       /\ Len(mask') = Len(df)
       /\ \A i \in 1..Len(df) : mask'[i] <=> KeyFieldsPresent(df[i])
       /\ Indexes(df') = {df[i].index : i \in {j \in 1..Len(df) : KeyFieldsPresent(df[j])}}
       /\ \A i, j \in 1..Len(df) :
            (/\ df[i].account_number = df[j].account_number
             /\ df[i].reading_date = df[j].reading_date
             /\ df[i].meter_number = df[j].meter_number) => mask'[i] = mask'[j]]_vars

C1_Witness ==
  /\ pc = "RowsValidated"
  /\ Len(mask) = 2
  /\ mask[1] /\ ~mask[2]
  /\ Len(df) = 1

IsIsoDate(t) ==
  /\ Len(t) = 10
  /\ t[5] = "-" /\ t[8] = "-"
  /\ \A k \in {1, 2, 3, 4, 6, 7, 9, 10} : t[k] \in DecimalChars

\* the reading_date text of the input row an output row comes from
InputDate(row) == file.rows[row.index][4]

\* C2: every row written to the output has a reading_date of the form
\* YYYY-MM-DD that was produced from a three-part day.month.year input; a
\* date that cannot be parsed never reaches the output.
C2_OutputDatesParsed ==
  out.exists =>
    \A k \in 1..Len(out.rows) :
      /\ Len(Split(Strip(InputDate(out.rows[k])), ".")) = 3
      /\ IsIsoDate(out.rows[k].reading_date)

\* the account_number text of the input row an output row comes from
InputAccount(row) == file.rows[row.index][2]

\* C3: an input row whose account_number field is empty is never present in
\* the written output.
C3_EmptyAccountDropped ==
  out.exists => \A k \in 1..Len(out.rows) : InputAccount(out.rows[k]) # <<>>

\* C4 as stated: no row whose consumption is null after cleaning is present
\* in the file that clean_csv_data persists.
C4_NoNullConsumptionWritten ==
  out.exists => \A k \in 1..Len(out.rows) : out.rows[k].consumption # None

\* row i of the input file after read_csv, column naming and field cleaning
CleanedInput(i) == clean_row(name_columns(read_csv(file)[i]))

\* C4 (amended): a row whose consumption is null after cleaning is present in
\* the persisted file exactly when its trimmed account_number is non-empty,
\* its reading_date is non-null and its trimmed meter_number is non-empty.
C4_NullConsumptionFollowsFilter ==
  (out.exists /\ pc \in {"Persisted", "Returned"}) =>
    \A i \in 1..Len(file.rows) :
      CleanedInput(i).consumption = None =>
        (i \in Indexes(out.rows) <=> KeyFieldsPresent(CleanedInput(i)))

C4_Witness ==
  /\ out.exists
  /\ \E k \in 1..Len(out.rows) : out.rows[k].consumption = None

\* a value a cleaner may return for a date or a consumption: a text, a
\* number or null, and not an exception
IsValueOrNull(v) == v # Raise /\ v # Unset

\* C9: a field-level parse failure never aborts a row or a file: the date and
\* consumption cleaners return a value or null for every field text and do
\* not raise, and the row filter is reached and evaluates every row.
C9_FieldFailuresDoNotAbort ==
  /\ [](pc = "FieldsCleaned" =>
          /\ ret = "unset"
          /\ Len(df) = Len(file.rows)
          /\ \A i \in 1..Len(df) :
               IsValueOrNull(df[i].reading_date) /\ IsValueOrNull(df[i].consumption))
  /\ [][pc = "Previewed" => pc' = "FieldsCleaned"]_vars
  /\ [][pc = "FieldsCleaned" => (pc' = "RowsValidated" /\ Len(mask') = Len(file.rows))]_vars

C9_Witness ==
  /\ pc = "RowsValidated"
  /\ Len(file.rows) = 1
  /\ file.rows[1][4] = <<"1", ".", "3", ".", "sup2", "3">>
  /\ mask = <<FALSE>>

CandidateOrder ==
  <<file.guess, "windows-1251", "cp1251", "utf-8-sig", "utf-8", "MacCyrillic">>

\* C10: the candidate encodings are tried in the order detected guess,
\* windows-1251, cp1251, utf-8-sig, utf-8, MacCyrillic; a candidate is tried
\* only after every earlier one failed to decode the file, and the first one
\* that succeeds ends the search and is the one whose parse result is used.
C10_EncodingOrder ==
  /\ Len(attempts) <= Len(CandidateOrder)
  /\ \A k \in 1..Len(attempts) : attempts[k].enc = CandidateOrder[k]
  /\ \A k \in 1..(Len(attempts) - 1) : attempts[k].outcome = "UnicodeDecodeError"
  /\ pc = "Reading" => \A k \in 1..Len(attempts) : attempts[k].outcome # "ok"
  /\ (attempts # <<>> /\ attempts[Len(attempts)].outcome = "ok") =>
        /\ pc # "Reading"
        /\ read_enc = attempts[Len(attempts)].enc
  /\ read_enc # "" => (attempts # <<>> /\ attempts[Len(attempts)].outcome = "ok")
  /\ df # <<>> => read_enc # ""

C10_Witness ==
  /\ pc = "RowsParsed"
  /\ Len(attempts) = 4
  /\ read_enc = "utf-8-sig"


(***************************************************************************)
(* Properties of the encoding and schema stages                            *)
(***************************************************************************)
\* no read_csv call of the run has returned a dataframe
NothingRead == read_enc = ""

\* C11: a run that returns False without having read the file has made all six
\* read attempts of the candidate list and every one of them failed: after a
\* failed attempt the remaining candidates are still tried.
C11_AllCandidatesTried ==
  (ret = "False" /\ NothingRead) =>
     /\ Len(attempts) = NumEncodings
     /\ \A k \in 1..NumEncodings :
          attempts[k].enc = encodings_to_try[k] /\ attempts[k].outcome # "ok"

\* C12: a run that ends at the encoding stage or at the schema stage has
\* returned False, has cleaned no field and filtered no row (the dataframe is
\* still what read_csv returned, or there is none), and the file at the output
\* path is what it was when the run began: not created, not modified.
C12_FailureLeavesOutputAlone ==
  (pc \in {"EncodingFailed", "SchemaInvalid"}) =>
     /\ ret = "False"
     /\ df = (IF pc = "SchemaInvalid" THEN read_csv(file) ELSE <<>>)
     /\ initial_count = 0
     /\ mask = <<>>
     /\ out = out_before

C12_Witness ==
  /\ pc = "SchemaInvalid"
  /\ ret = "False"
  /\ NumColumns(df) = 4
  /\ out_before = StaleOutput
  /\ out = StaleOutput

\* C14: a run that has returned ended in one of three outcomes: Persisted with
\* result True, EncodingFailed or SchemaInvalid with result False.
C14_ThreeTerminalOutcomes ==
  (ret # "unset") =>
     \/ ret = "True" /\ pc = "Returned" /\ out.exists
     \/ ret = "False" /\ pc \in {"EncodingFailed", "SchemaInvalid"}

(***************************************************************************)
(* Properties of the writer                                                *)
(***************************************************************************)
\* the blocks with every two neighbours that continue each other joined
RECURSIVE JoinBlocks(_)
JoinBlocks(blocks) ==
  IF Len(blocks) < 2 THEN blocks
  ELSE IF blocks[1].to = blocks[2].from
    THEN JoinBlocks(<<Block(blocks[1].from, blocks[2].to)>> \o SubSeq(blocks, 3, Len(blocks)))
    ELSE <<blocks[1]>> \o JoinBlocks(Tail(blocks))

\* two files have the same lines: as many header lines and the same rows
SameContent(a, b) ==
  /\ a.exists = b.exists
  /\ a.header = b.header
  /\ JoinBlocks(a.rows) = JoinBlocks(b.rows)

\* the file a single to_csv call of the whole dataframe leaves
WholeFile == to_csv(out_before, <<Block(0, length)>>, "w", TRUE)

\* C13: at every point of a run the file at the output path is either what it
\* was when the run began or holds the complete record set; a failed write
\* leaves no partial file.
C13_AtomicOutput == out = out_before \/ SameContent(out, WholeFile)

\* C16: more than 500000 rows are written as consecutive chunks of 200000 rows,
\* the last one possibly shorter, that cover the rows once and in order; the
\* header is written with the first chunk only; the finished file has one
\* header line and the content of a single whole write.  At most 500000 rows
\* are written by one call.
C16_ChunkedWriteEqualsWhole ==
  /\ (pc = "Appending") =>
       /\ out.header = 1
       /\ out.rows = SubSeq(chunks, 1, chunk_i - 1)
  /\ (pc \in {"Persisted", "Returned"}) =>
       /\ SameContent(out, WholeFile)
       /\ IF length > ChunkThreshold
            THEN /\ Len(out.rows) > 1
                 /\ \A k \in 1..Len(out.rows) :
                      /\ out.rows[k].from = (k - 1) * ChunkSize
                      /\ k < Len(out.rows) => out.rows[k].to - out.rows[k].from = ChunkSize
                      /\ out.rows[k].to - out.rows[k].from \in 1..ChunkSize
            ELSE out.rows = <<Block(0, length)>>

C16_Witness ==
  /\ pc = "Returned"
  /\ length = 3 * ChunkSize + 1
  /\ out = [exists |-> TRUE, header |-> 1,
            rows |-> <<Block(0, ChunkSize), Block(ChunkSize, 2 * ChunkSize),
                       Block(2 * ChunkSize, 3 * ChunkSize), Block(3 * ChunkSize, length)>>]

(***************************************************************************)
(* Properties of the batch                                                 *)
(***************************************************************************)
\* the files for which clean_csv_data has returned True
Succeeded == {k \in 1..Len(returned) : returned[k].result = "True"}

BatchOrder ==
  /\ Len(returned) <= Len(csv_files)
  /\ \A k \in 1..Len(returned) : returned[k].file = k
  /\ (main_pc = "call") => (file_i = Len(returned) + 1 /\ file = csv_files[file_i])
  /\ (main_pc \in {"loop", "call", "done"}) => successful = Cardinality(Succeeded)
  /\ (main_pc = "done") =>
       /\ Len(returned) = Len(csv_files)
       /\ successful \in 0..Len(csv_files)
  /\ (main_pc = "exit") => csv_files = <<>>

\* C15: the calls of clean_csv_data that have returned are those for the files
\* 1, 2, ... of the list, one call each and in this order, whatever they
\* returned; the batch ends; when it has ended, every file has been processed
\* and the reported count is the number of calls that returned True, a number
\* between 0 and the number of files.
C15_BatchProcessesEveryFile == []BatchOrder /\ <>(main_pc \in {"done", "exit"})

C15_Witness ==
  /\ main_pc = "done"
  /\ Len(csv_files) = 2
  /\ returned = <<[file |-> 1, result |-> "False"], [file |-> 2, result |-> "True"]>>
  /\ successful = 1

(***************************************************************************)
(* Idempotence                                                             *)
(***************************************************************************)
\* C17: the date cleaner returns a YYYY-MM-DD text unchanged, and applied to
\* its own result it returns that result: a date stays the same date and
\* null stays null.
C17_DateCleanerIdempotent ==
  [][/\ (fn = "none" /\ fn' = "date" /\ IsIsoDate(arg)) => res' = arg
     /\ (fn' = "date_again") => res' = res]_vars

C17_Witness ==
  /\ fn = "date_again"
  /\ arg = <<"1", "5", ".", "0", "6", ".", "2", "2">>
  /\ res = <<"2", "0", "2", "2", "-", "0", "6", "-", "1", "5">>

\* the six fields of every row, without the row labels
Fields(rows) ==
  [i \in 1..Len(rows) |->
     <<rows[i].city, rows[i].account_number, rows[i].meter_number, rows[i].reading_date,
       rows[i].consumption, rows[i].reading_method>>]

\* C18: a second run on the file a first run wrote is persisted and writes
\* exactly the records of the first run: no field changes, no row is dropped.
C18_SecondRunSameRecords ==
  (run = 2 /\ ret # "unset") => (ret = "True" /\ Fields(out.rows) = Fields(first_rows))

(***************************************************************************)
(* Properties of the derived features                                      *)
(***************************************************************************)
\* the month of a DD.MM.YYYY text
MonthOf(text) == NatOf(SubSeq(text, 4, 5))

SeasonTable ==
  [m \in 1..12 |->
     CASE m \in {12, 1, 2} -> "winter"
       [] m \in {3, 4, 5} -> "spring"
       [] m \in {6, 7, 8} -> "summer"
       [] m \in {9, 10, 11} -> "autumn"]

HeatingMonths == {10, 11, 12, 1, 2, 3, 4}

FeaturesFollowMonth(rows, m) ==
  \A i \in 1..Len(rows) :
    /\ rows[i].month = m
    /\ rows[i].season = SeasonTable[m]
    /\ rows[i].heating_season = (IF m \in HeatingMonths THEN 1 ELSE 0)

\* C19: for every month 1..12 the season is winter for 12, 1, 2, spring for
\* 3, 4, 5, summer for 6, 7, 8 and autumn for 9, 10, 11, and heating_season is
\* set exactly for the months 10, 11, 12, 1, 2, 3, 4, whatever the day and the
\* year; clean_data and normalize_data give a row the same season and flag.
C19_SeasonByMonth ==
  LET m == MonthOf(arg[1].date) IN
  /\ m \in 1..12
  /\ FeaturesFollowMonth(res.clean_data, m)
  /\ FeaturesFollowMonth(res.normalize_data, m)
  /\ (fn = "both") =>
       /\ Len(res.normalize_data) = 1
       /\ \A i \in 1..Len(res.clean_data) :
            /\ res.clean_data[i].season = res.normalize_data[1].season
            /\ res.clean_data[i].heating_season = res.normalize_data[1].heating_season

C19_Witness ==
  /\ fn = "both"
  /\ MonthOf(arg[1].date) = 11
  /\ Len(res.clean_data) = 1
  /\ res.clean_data[1].season = "autumn"
  /\ res.clean_data[1].heating_season = 1
  /\ res.normalize_data[1].season = "autumn"
  /\ res.normalize_data[1].heating_season = 1

(***************************************************************************)
(* Properties of the meter number cleaner                                  *)
(***************************************************************************)
\* the positions of the digit characters of a text
DigitPositions(t) == {i \in 1..Len(t) : IsDigit(t[i])}

\* the k-th smallest element of a set of positions
KthPosition(positions, k) ==
  CHOOSE i \in positions : Cardinality({j \in positions : j < i}) = k - 1

\* s holds the digit characters of t, all of them, in the order they have in t
IsDigitsInOrder(s, t) ==
  /\ Len(s) = Cardinality(DigitPositions(t))
  /\ \A k \in 1..Len(s) : s[k] = t[KthPosition(DigitPositions(t), k)]

\* the meter_number value read_csv returned for the input row an output row comes from
InputMeter(row) == name_columns(read_csv(file)[row.index]).meter_number

MeterIsDigitsOfInput ==
  (pc \in {"FieldsCleaned", "RowsValidated"}) =>
     \A i \in 1..Len(df) : IsDigitsInOrder(df[i].meter_number, Str(InputMeter(df[i])))

RowsWithoutMeterDigitDropped ==
  (pc = "FieldsCleaned" /\ pc' = "RowsValidated") =>
     \A i \in 1..Len(df) :
       (DigitPositions(Str(InputMeter(df[i]))) = {}) =>
          (df[i].meter_number = <<>> /\ df[i].index \notin Indexes(df'))

C21_TextCleaned ==
  (fn = "text") =>
     /\ res \notin {None, NaN, Raise}
     /\ \A i \in 1..Len(res) : res[i] \notin {"quote", "nbsp"}
     /\ res # <<>> => (~IsSpace(res[1]) /\ ~IsSpace(res[Len(res)]))

(***************************************************************************)
(* The scenario rows                                                       *)
(***************************************************************************)
\* the output records written for line i of the input file
RecordsOf(i) == SelectSeq(out.rows, LAMBDA r : r.index = i)

HasDerivedFields(r) ==
  /\ {"month", "year", "quarter", "season", "heating_season"} \subseteq DOMAIN r
  /\ r.month = 3
  /\ r.year = 2022
  /\ r.quarter = 1
  /\ r.season = "spring"
  /\ r.heating_season = 1

IsScenarioRecord(r) ==
  /\ r.city = <<"C", "i", "t", "y", "A">>
  /\ r.account_number = <<"A", "C", "C", "1">>
  /\ r.meter_number = <<"0", "0", "1">>
  /\ r.reading_date = <<"2", "0", "2", "2", "-", "0", "3", "-", "0", "5">>
  /\ r.consumption = Number(FALSE, <<"1", "5", "0", "0">>, <<"5">>)
  /\ r.reading_method = <<"m", "a", "n", "u", "a", "l">>

\* C22: the line CityA;ACC1;M-001;05.03.22;1 500,5;manual yields one output
\* record with city CityA, account_number ACC1, meter number 001, reading_date
\* 2022-03-05, consumption 1500.5 and reading_method manual, and that record
\* carries month 3, year 2022, quarter 1, season spring and heating_season
\* true, in the record itself or after clean_data has taken the output table.
C22_ScenarioRecord ==
  (out.exists /\ pc \in {"Persisted", "Returned"}) =>
     \A i \in 1..Len(file.rows) :
        file.rows[i] = ScenarioRow =>
           /\ Len(RecordsOf(i)) = 1
           /\ IsScenarioRecord(RecordsOf(i)[1])
           /\ \/ HasDerivedFields(RecordsOf(i)[1])
              \/ LET derived == clean_data_table(RecordsOf(i))
                 IN /\ ~derived.raised
                    /\ Len(derived.rows) = 1
                    /\ HasDerivedFields(derived.rows[1])

\* the six cleaned fields of the scenario line, without the derived ones
C22_SixFields ==
  (out.exists /\ pc \in {"Persisted", "Returned"}) =>
     \A i \in 1..Len(file.rows) :
        file.rows[i] = ScenarioRow =>
           /\ Len(RecordsOf(i)) = 1
           /\ IsScenarioRecord(RecordsOf(i)[1])
           /\ DOMAIN RecordsOf(i)[1] = {"index"} \cup {Columns[k] : k \in 1..Len(Columns)}

\* the number line 155 reports as removed
DropCount == initial_count - Len(df)

LinesEqualTo(rows) == {j \in 1..Len(file.rows) : file.rows[j] \in rows}

\* C23 as stated: the line ;ACC2;M-002;01.01.22;100;auto, whose first field is
\* empty, is not present in the output and is counted among the removed rows.
C23_EmptyFirstFieldDropped ==
  (out.exists /\ pc \in {"Persisted", "Returned"}) =>
     \A i \in 1..Len(file.rows) :
        file.rows[i] = EmptyFirstFieldRow =>
           /\ Len(RecordsOf(i)) = 0
           /\ DropCount = Cardinality(LinesEqualTo({EmptyFirstFieldRow, BlankKeysRow}))

\* C23, amended: the line ;ACC2;M-002;01.01.22;100;auto has its account_number,
\* meter_number and reading_date present, so it is written once, with
\* account_number ACC2, meter number 002, reading_date 2022-01-01, consumption
\* 100.0, reading_method auto and the city text nan, and the reported number
\* of removed rows does not count it.
C23_EmptyFirstFieldKept ==
  (out.exists /\ pc \in {"Persisted", "Returned"}) =>
     \A i \in 1..Len(file.rows) :
        file.rows[i] = EmptyFirstFieldRow =>
           /\ Len(RecordsOf(i)) = 1
           /\ RecordsOf(i)[1].city = <<"n", "a", "n">>
           /\ RecordsOf(i)[1].account_number = <<"A", "C", "C", "2">>
           /\ RecordsOf(i)[1].meter_number = <<"0", "0", "2">>
           /\ RecordsOf(i)[1].reading_date = <<"2", "0", "2", "2", "-", "0", "1", "-", "0", "1">>
           /\ RecordsOf(i)[1].consumption = Number(FALSE, <<"1", "0", "0">>, <<>>)
           /\ RecordsOf(i)[1].reading_method = <<"a", "u", "t", "o">>
           /\ DropCount = Cardinality(LinesEqualTo({BlankKeysRow}))

C23_Witness ==
  /\ pc = "Returned"
  /\ file.rows = <<EmptyFirstFieldRow, BlankKeysRow>>
  /\ DropCount = 1
  /\ Len(out.rows) = 1
  /\ out.rows[1].index = 1

(***************************************************************************)
(* Row accounting                                                          *)
(***************************************************************************)
\* C25: for a persisted file the rows parsed are the rows dropped plus the
\* rows written, the reported drop count is parsed minus written, and the
\* written rows are the rows that pass the filter, each once, in input order.
C25_RowAccounting ==
  pc \in {"Persisted", "Returned"} =>
     /\ initial_count = Len(file.rows)
     /\ Len(mask) = Len(file.rows)
     /\ Len(file.rows) = Cardinality({i \in 1..Len(mask) : ~mask[i]}) + Len(out.rows)
     /\ DropCount = Len(file.rows) - Len(out.rows)
     /\ \A i \in 1..Len(mask) : mask[i] <=> KeyFieldsPresent(CleanedInput(i))
     /\ \A i \in 1..Len(mask) : Len(RecordsOf(i)) = IF mask[i] THEN 1 ELSE 0
     /\ \A k \in 1..Len(out.rows) :
          /\ out.rows[k].index \in 1..Len(file.rows)
          /\ out.rows[k] = CleanedInput(out.rows[k].index)
     /\ \A k, l \in 1..Len(out.rows) : k < l => out.rows[k].index < out.rows[l].index

C25_Witness ==
  /\ pc = "Returned"
  /\ initial_count = 2
  /\ mask = <<FALSE, TRUE>>
  /\ DropCount = 1
  /\ Len(out.rows) = 1
  /\ out.rows[1].index = 2

(***************************************************************************)
(* Files of more than six columns                                          *)
(***************************************************************************)
\* C26: a file that parses to more than six columns is not persisted: the run
\* returns False through the handler of line 198 and writes nothing, so the
\* file at the output path is what it was before; only files of exactly six
\* columns reach Persisted.
C26_SixColumnsOnly ==
  /\ Len(file.rows[1]) > Len(Columns) =>
        /\ out = out_before
        /\ ret # "True"
        /\ pc \in {"Unparsed", "Reading", "RowsParsed", "Error"}
        /\ pc = "Error" => ret = "False"
        /\ ret = "unset" => pc # "Error"
  /\ pc \in {"Persisted", "Returned"} =>
        \A i \in 1..Len(file.rows) : Len(file.rows[i]) = Len(Columns)

C26_Witness ==
  /\ pc = "Error"
  /\ ret = "False"
  /\ read_enc # ""
  /\ NumColumns(df) = 7
  /\ out_before = StaleOutput
  /\ out = StaleOutput

(***************************************************************************)
(* Properties of the dashboard                                             *)
(***************************************************************************)
\* C24: a call of prepare_customer_stats, detect_anomalies, build_forecast or
\* apply_filters on the dataframe of the session leaves that dataframe with
\* the same columns and the same values; what the call derives is placed in
\* other keys of the session state.
C24_AnalysisLeavesDataframe == [][session'.df = session.df]_vars

\* the same for a dataframe that load_data_from_db stored, which has a month
\* column already
C24_DatabaseFrameKeepsValues == [][session.data_meta.set => session'.df = session.df]_vars

\* C27: with auto-refresh enabled and a dataframe loaded, a run of the script
\* reloads from the database if and only if more than 1800 seconds have passed
\* since last_update, whatever the length of that time.
C27_ReloadAfterThirtyMinutes ==
  [][(/\ last_run.pc = "refresh"
      /\ last_run'.pc = "tabs"
      /\ last_run.auto_refresh
      /\ ~session.df.none
      /\ session.last_update.set)
       => (last_run'.reloaded <=> clock - session.last_update.value > RefreshSeconds)]_vars

\* the part of C27 below one day
C27_ReloadWithinOneDay ==
  [][(/\ last_run.pc = "refresh"
      /\ last_run'.pc = "tabs"
      /\ last_run.auto_refresh
      /\ ~session.df.none
      /\ session.last_update.set
      /\ clock - session.last_update.value < SecondsPerDay)
       => (last_run'.reloaded <=> clock - session.last_update.value > RefreshSeconds)]_vars

\* a step of the script in which load_data_from_db was called
LoadCalled == last_run'.pc # last_run.pc /\ last_run'.returned # "none"

\* C28: a call of load_data_from_db that returns None leaves df, processed,
\* last_update and data_meta of the session state as they were; a call that
\* replaces df replaces data_meta too, and its total_records is the number of
\* rows of the new df.
C28_LoadAllOrNothing ==
  [][LoadCalled =>
       /\ last_run'.returned = "None" => session' = session
       /\ last_run'.returned = "df" =>
            /\ ~session'.df.none
            /\ session'.processed
            /\ session'.last_update = Present(clock)
            /\ session'.data_meta.set
            /\ session'.data_meta.value.loaded_at = clock
       /\ session'.df # session.df =>
            /\ last_run'.returned = "df"
            /\ session'.data_meta.set
            /\ session'.data_meta.value.loaded_at = clock
            /\ session'.data_meta.value.total_records = Len(session'.df.rows)]_vars

\* a reload that failed after an earlier load, and a load that kept one of two rows
C28_Witness ==
  /\ last_run.pc = "idle"
  /\ last_run.event = "force_refresh"
  /\ last_run.returned = "None"
  /\ ~session.df.none
  /\ session.data_meta.set
  /\ session.data_meta.value.total_records = 1
  /\ session.data_meta.value.loaded_at < clock

(***************************************************************************)
(* Properties of the database importer                                     *)
(***************************************************************************)
ImportDone == importer # <<>> /\ importer.pc = "done"

\* the processing of row i raises by itself: an exception of lines 64-72, or
\* values the server does not accept
RowRaises(i) ==
  import_values(importer.rows[i]).raised \/ ~importer.rows[i].accepted

\* the database holds a reading of the meter and date of row i
RowStored(i) ==
  \E r \in importer.committed.readings :
    /\ r.meter_code = import_values(importer.rows[i]).meter_code
    /\ r.location = import_values(importer.rows[i]).location
    /\ r.reading_date = import_values(importer.rows[i]).reading_date

ImportAccounting ==
  /\ importer.imported_count + importer.skipped_count = Len(importer.rows)
  /\ importer.returned = <<importer.imported_count>>
  /\ \A i \in 1..Len(importer.rows) :
       /\ RowRaises(i) => importer.counted[i] = "skipped"
       /\ ~RowRaises(i) => importer.counted[i] = "imported"
       /\ importer.counted[i] = "imported" => RowStored(i)

ImportRolledBack ==
  /\ importer.committed = importer.before
  /\ importer.returned = <<0>>

\* C29: when import_from_csv has returned after a commit, every row whose
\* processing raises is counted as skipped, every other row is counted as
\* imported whatever the rows before it did, imported_count + skipped_count is
\* the number of rows read and every row counted as imported is in the
\* database; when read_csv raised, the database is as before the call and 0 is
\* returned.
C29_RowErrorsAreIsolated ==
  ImportDone => IF importer.readable THEN ImportAccounting ELSE ImportRolledBack

\* the same when the server accepts the statements of every row, so that the
\* only exceptions are those of lines 68 and 72
C29_ConversionErrorsAreIsolated ==
  (ImportDone /\ \A i \in 1..Len(importer.rows) : importer.rows[i].accepted)
    => IF importer.readable THEN ImportAccounting ELSE ImportRolledBack

\* the count of the rows and the outer handler, for every file
C29_CountsAndRollback ==
  ImportDone =>
    IF importer.readable
      THEN importer.imported_count + importer.skipped_count = Len(importer.rows)
      ELSE ImportRolledBack

(***************************************************************************)
(* Properties of the old pipeline                                          *)
(***************************************************************************)
\* call k created the normalized file and the later call l loaded it
CreatedThenLoaded(k, l) ==
  /\ k < l
  /\ pipeline.calls[k].branch = "created" /\ ~pipeline.calls[k].raised
  /\ pipeline.calls[l].branch = "loaded"

\* C30: the data returned by a call that creates the normalized file have the
\* columns and the rows of the data returned by a later call that loads the
\* file.
C30_BothBranchesReturnNormalized ==
  pipeline # <<>> =>
    \A k, l \in 1..Len(pipeline.calls) :
      CreatedThenLoaded(k, l) =>
        /\ pipeline.calls[k].df.columns = pipeline.calls[l].df.columns
        /\ Len(pipeline.calls[k].df.rows) = Len(pipeline.calls[l].df.rows)
        /\ \A i \in 1..Len(pipeline.calls[k].df.rows) :
           \A c \in {"date", "month", "year", "season", "heating_season"} :
             /\ c \in DOMAIN pipeline.calls[k].df.rows[i]
             /\ pipeline.calls[k].df.rows[i][c] = pipeline.calls[l].df.rows[i][c]

\* what the two branches do return: the creating call the six raw columns,
\* the loading call the eleven columns of the normalized file, with as many
\* rows
C30_CreatedReturnsRawColumns ==
  pipeline # <<>> =>
    \A k, l \in 1..Len(pipeline.calls) :
      CreatedThenLoaded(k, l) =>
        /\ pipeline.calls[k].df.columns = RawColumns
        /\ pipeline.calls[l].df.columns = NormalizedColumns
        /\ Len(pipeline.calls[k].df.rows) = Len(pipeline.calls[l].df.rows)

====
